---- MODULE Spec2Model ----
(***************************************************************************)
(* LiftLog persistence engine (lib/database): the memoized SQLite handle,  *)
(* schema creation, the i18n_key migration, and the read/write operations  *)
(* on the workouts, exercises and sets tables.                             *)
(*                                                                         *)
(* Every `await` of the source is a suspension point: an operation that    *)
(* awaits a statement is split at that await, so that other calls may run  *)
(* in between, exactly as the JavaScript event loop allows.                *)
(***************************************************************************)
EXTENDS Integers, Sequences, FiniteSets, TLC

(***************************************************************************)
(* Bounds of the model.                                                    *)
(***************************************************************************)
\* handles openDatabaseAsync may hand out in one behaviour
MaxOpens == 3
\* getDatabase calls counted between two closeDatabase calls
MaxCalls == 2
\* closeDatabase calls counted in a row
MaxCloses == 2
\* rows per table while the handle life cycle is explored
MaxLifeRows == 1
\* rows per table while the data operations are explored
MaxWorkouts == 1
MaxExercises == 2
MaxSets == 1
\* rows per table while sets of several workouts and exercises are explored
MaxRows == 2
\* rows per table while the bulk import is explored
MaxImportRows == 3
MaxQueryRows == 2

(***************************************************************************)
(* Values.                                                                 *)
(***************************************************************************)
\* SQL NULL / JS null for text columns
NULL == "null"
\* JS null for the handle, and the falsy row id
NoHandle == 0

\* Strings are sequences of characters, so that trim() and the
\* `${name}|${category}` key are computed, not assumed.
Names == { <<"B">>, <<" ", "B">>, <<"x">> }
Categories == { <<"P">>, <<"L">> }
Dates == { 1, 2 }
Weights == { 1, 2 }
RepsVals == { 5 }
LoadTypes == { "weighted", "bodyweight" }

Callers == { 1, 2 }

VARIABLES
  db,          \* the module variable `db`: NoHandle or a handle
  conns,       \* conns[h]: the connection behind handle h
  call,        \* call[c]: caller c's getDatabase call
  closer,      \* the closeDatabase call
  hasTables,   \* the file holds the three tables and the indexes
  hasCol,      \* exercises has the i18n_key column
  workouts, exercises, sets,   \* the rows of the file
  seq,         \* sqlite_sequence: the AUTOINCREMENT counters
  openCalls,   \* openDatabaseAsync invocations since the last closeDatabase
  schemaRuns,  \* initializeSchema runs since the last closeDatabase
  resolved,    \* handles getDatabase resolved with since the last closeDatabase
  nCalls,      \* getDatabase calls resolved since the last closeDatabase
  overlap,     \* a getDatabase call started while another was suspended
  migrated,    \* a migration completed and no data operation changed exercises since
  atOp,        \* exercises as the last data operation left it
  lastOp       \* the last data operation: its name, arguments and result

vars == << db, conns, call, closer, hasTables, hasCol, workouts, exercises, sets,
           seq, openCalls, schemaRuns, resolved, nCalls, overlap, migrated, atOp,
           lastOp >>

fileVars == << hasTables, hasCol, workouts, exercises, sets, seq >>
dataVars == << workouts, exercises, sets, seq, atOp, lastOp >>

(***************************************************************************)
(* Strings.                                                                *)
(***************************************************************************)
RECURSIVE TrimStart(_)
TrimStart(s) == IF s # << >> /\ Head(s) = " " THEN TrimStart(Tail(s)) ELSE s

RECURSIVE TrimEnd(_)
TrimEnd(s) ==
  IF s # << >> /\ s[Len(s)] = " " THEN TrimEnd(SubSeq(s, 1, Len(s) - 1)) ELSE s

\* String.prototype.trim
Trim(s) == TrimEnd(TrimStart(s))

\* getDefaultExerciseNameToKeyMap(): default names (any locale) -> i18n key
DefaultNameToKey ==
  ( <<"B">> :> "defaultExercises.benchPress" ) @@
  ( <<"b">> :> "defaultExercises.benchPress" ) @@
  ( <<"S">> :> "defaultExercises.squats" )

\* nameToKey[name]: undefined (here NULL) for a missing property
Lookup(name) ==
  IF name \in DOMAIN DefaultNameToKey THEN DefaultNameToKey[name] ELSE NULL

\* the lookup by the raw name alone
BackfillKeyNoTrim(name) == Lookup(name)

\* nameToKey[name.trim()] || nameToKey[row.name]
BackfillKey(name) ==
  IF Lookup(Trim(name)) # NULL THEN Lookup(Trim(name)) ELSE Lookup(name)

(***************************************************************************)
(* Rows.                                                                   *)
(***************************************************************************)
Ids(rows) == { r.id : r \in rows }

RECURSIVE ById(_)
\* rows in rowid order, as a SELECT without ORDER BY returns them
ById(rows) ==
  IF rows = {} THEN << >>
  ELSE LET m == CHOOSE r \in rows : \A q \in rows : r.id <= q.id
       IN  << m >> \o ById(rows \ {m})

FindExercise(exs, name, category) ==
  { r \in exs : r.name = name /\ r.category = category }

\* SELECT id FROM exercises WHERE name = ? AND category = ?  (0 when no row)
ExerciseId(exs, name, category) ==
  IF FindExercise(exs, name, category) = {} THEN 0
  ELSE (CHOOSE r \in FindExercise(exs, name, category) : TRUE).id

NoOp == [op |-> "none", name |-> << >>, category |-> << >>, id |-> 0, ret |-> 0,
         err |-> NULL, args |-> << >>]

IdleCall == [pc |-> "idle", h |-> NoHandle, rows |-> << >>, ret |-> NoHandle,
             err |-> NULL, fault |-> NULL]

Init ==
  /\ db = NoHandle
  /\ conns = << >>
  /\ call = [c \in Callers |-> IdleCall]
  /\ closer = [pc |-> "idle", h |-> NoHandle, n |-> 0]
  /\ hasTables = FALSE
  /\ hasCol = FALSE
  /\ workouts = {}
  /\ exercises = {}
  /\ sets = {}
  /\ seq = [workouts |-> 0, exercises |-> 0, sets |-> 0]
  /\ openCalls = 0
  /\ schemaRuns = 0
  /\ resolved = {}
  /\ nCalls = 0
  /\ overlap = FALSE
  /\ migrated = FALSE
  /\ atOp = {}
  /\ lastOp = NoOp

(***************************************************************************)
(* Statements on a connection.                                             *)
(***************************************************************************)
\* no getDatabase or closeDatabase call is suspended
Quiet ==
  /\ \A c \in Callers : call[c].pc \in { "idle", "done", "failed" }
  /\ closer.pc = "idle"

\* `await getDatabase()` at the head of an operation returns the memoized
\* handle at once; the path through openDatabaseAsync is GetDatabase below.
\* A statement on missing tables throws and changes nothing.
Ready == db # NoHandle /\ Quiet /\ hasTables

\* sqlite3_last_insert_rowid: set by every successful INSERT on the connection
SetLastRow(id) == conns' = [conns EXCEPT ![db].lastRow = id]

Done(op, name, category, id, ret, err) ==
  lastOp' = [op |-> op, name |-> name, category |-> category, id |-> id,
             ret |-> ret, err |-> err, args |-> << >>]

\* the same, for an operation whose other arguments are kept as well
DoneWith(op, id, args, ret, err) ==
  lastOp' = [op |-> op, name |-> << >>, category |-> << >>, id |-> id,
             ret |-> ret, err |-> err, args |-> args]

\* bookkeeping shared by the data operations
Touch ==
  /\ atOp' = exercises'
  /\ migrated' = (migrated /\ exercises' = exercises)
  /\ UNCHANGED << db, call, closer, hasTables, hasCol, openCalls, schemaRuns,
                  resolved, nCalls, overlap >>

(***************************************************************************)
(* Workout operations.                                                     *)
(***************************************************************************)
createWorkout(date, notes) ==
  /\ Ready
  /\ LET id == seq.workouts + 1 IN
       /\ workouts' = workouts \cup { [id |-> id, date |-> date, notes |-> notes] }
       /\ seq' = [seq EXCEPT !.workouts = id]
       /\ SetLastRow(id)
       /\ Done("createWorkout", << >>, << >>, id, id, NULL)
  /\ UNCHANGED << exercises, sets >>
  /\ Touch

updateWorkout(id, date, notes) ==
  /\ Ready
  /\ workouts' = { IF w.id = id THEN [w EXCEPT !.date = date, !.notes = notes] ELSE w
                   : w \in workouts }
  /\ Done("updateWorkout", << >>, << >>, id, 0, NULL)
  /\ UNCHANGED << exercises, sets, seq, conns >>
  /\ Touch

\* foreign keys declared without ON DELETE CASCADE
CascadeOff(rows, column, id) == rows

\* ON DELETE CASCADE acts only while PRAGMA foreign_keys is ON for the connection
Cascade(rows, column, id) ==
  IF conns[db].fk THEN { s \in rows : s[column] # id } ELSE rows

deleteWorkout(id) ==
  /\ Ready
  /\ workouts' = { w \in workouts : w.id # id }
  /\ sets' = Cascade(sets, "workout_id", id)
  /\ Done("deleteWorkout", << >>, << >>, id, 0, NULL)
  /\ UNCHANGED << exercises, seq, conns >>
  /\ Touch

(***************************************************************************)
(* Exercise operations.                                                    *)
(***************************************************************************)
\* an exercises table without the UNIQUE constraint
UniqueOkNone(exs, id, name, category) == TRUE

\* UNIQUE(name, category): would writing (name, category) into row id collide
UniqueOk(exs, id, name, category) ==
  \A r \in exs : (r.name = name /\ r.category = category) => r.id = id

createExercise(name, category) ==
  /\ Ready
  /\ IF FindExercise(exercises, name, category) = {}
     THEN LET id == seq.exercises + 1 IN
            /\ exercises' = exercises \cup
                 { [id |-> id, name |-> name, category |-> category, i18n_key |-> NULL] }
            /\ seq' = [seq EXCEPT !.exercises = id]
            /\ SetLastRow(id)
            /\ Done("createExercise", name, category, id, id, NULL)
     ELSE \* INSERT OR IGNORE did nothing: lastInsertRowId is the connection's
          \* previous value, and only 0 leads to the SELECT
          /\ UNCHANGED << exercises, seq, conns >>
          /\ Done("createExercise", name, category, 0,
                  IF conns[db].lastRow = 0
                  THEN ExerciseId(exercises, name, category)
                  ELSE conns[db].lastRow, NULL)
  /\ UNCHANGED << workouts, sets >>
  /\ Touch

getOrCreateExercise(name, category) ==
  /\ Ready
  /\ IF FindExercise(exercises, name, category) # {}
     THEN /\ UNCHANGED << exercises, seq, conns >>
          /\ Done("getOrCreateExercise", name, category, 0,
                  ExerciseId(exercises, name, category), NULL)
     ELSE LET id == seq.exercises + 1 IN
            /\ exercises' = exercises \cup
                 { [id |-> id, name |-> name, category |-> category, i18n_key |-> NULL] }
            /\ seq' = [seq EXCEPT !.exercises = id]
            /\ SetLastRow(id)
            /\ Done("getOrCreateExercise", name, category, id, id, NULL)
  /\ UNCHANGED << workouts, sets >>
  /\ Touch

\* an updateExercise that refuses a taken pair before looking for the row
updateExerciseChecksFirst(id, name, category) ==
  /\ Ready
  /\ IF ~UniqueOk(exercises, id, name, category)
     THEN /\ UNCHANGED exercises
          /\ Done("updateExercise", name, category, id, 0, "SQLITE_CONSTRAINT_UNIQUE")
     ELSE /\ exercises' = { IF r.id = id
                            THEN [r EXCEPT !.name = name, !.category = category]
                            ELSE r : r \in exercises }
          /\ Done("updateExercise", name, category, id, 0, NULL)
  /\ UNCHANGED << workouts, sets, seq, conns >>
  /\ Touch

\* an updateExercise that resets the flag of the row it renames
updateExerciseClearsKey(id, name, category) ==
  /\ Ready
  /\ IF id \in Ids(exercises) /\ ~UniqueOk(exercises, id, name, category)
     THEN /\ UNCHANGED exercises
          /\ Done("updateExercise", name, category, id, 0, "SQLITE_CONSTRAINT_UNIQUE")
     ELSE /\ exercises' = { IF r.id = id
                            THEN [r EXCEPT !.name = name, !.category = category,
                                           !.i18n_key = NULL]
                            ELSE r : r \in exercises }
          /\ Done("updateExercise", name, category, id, 0, NULL)
  /\ UNCHANGED << workouts, sets, seq, conns >>
  /\ Touch

updateExercise(id, name, category) ==
  /\ Ready
  /\ IF id \in Ids(exercises) /\ ~UniqueOk(exercises, id, name, category)
     THEN /\ UNCHANGED exercises
          /\ Done("updateExercise", name, category, id, 0, "SQLITE_CONSTRAINT_UNIQUE")
     ELSE /\ exercises' = { IF r.id = id
                            THEN [r EXCEPT !.name = name, !.category = category]
                            ELSE r : r \in exercises }
          /\ Done("updateExercise", name, category, id, 0, NULL)
  /\ UNCHANGED << workouts, sets, seq, conns >>
  /\ Touch

\* a deleteExercise that also drops the workouts it leaves without sets
deleteExerciseAndEmptyWorkouts(id) ==
  /\ Ready
  /\ exercises' = { r \in exercises : r.id # id }
  /\ sets' = Cascade(sets, "exercise_id", id)
  /\ workouts' = { w \in workouts : \E s \in sets' : s.workout_id = w.id }
  /\ Done("deleteExercise", << >>, << >>, id, 0, NULL)
  /\ UNCHANGED << seq, conns >>
  /\ Touch

deleteExercise(id) ==
  /\ Ready
  /\ exercises' = { r \in exercises : r.id # id }
  /\ sets' = Cascade(sets, "exercise_id", id)
  /\ Done("deleteExercise", << >>, << >>, id, 0, NULL)
  /\ UNCHANGED << workouts, seq, conns >>
  /\ Touch

(***************************************************************************)
(* Set operations.                                                         *)
(***************************************************************************)
\* a sets table without foreign keys
ForeignKeysOff(workoutId, exerciseId) == TRUE

\* FOREIGN KEY (workout_id), (exercise_id): checked only while foreign_keys is ON
ForeignKeysOk(workoutId, exerciseId) ==
  conns[db].fk => (workoutId \in Ids(workouts) /\ exerciseId \in Ids(exercises))

createSet(workoutId, exerciseId, weight, reps, loadType, setOrder) ==
  /\ Ready
  /\ IF ForeignKeysOk(workoutId, exerciseId)
     THEN LET id == seq.sets + 1 IN
            /\ sets' = sets \cup
                 { [id |-> id, workout_id |-> workoutId, exercise_id |-> exerciseId,
                    weight |-> weight, reps |-> reps, load_type |-> loadType,
                    set_order |-> setOrder] }
            /\ seq' = [seq EXCEPT !.sets = id]
            /\ SetLastRow(id)
            /\ DoneWith("createSet", id, << workoutId, exerciseId >>, id, NULL)
     ELSE /\ UNCHANGED << sets, seq, conns >>
          /\ DoneWith("createSet", 0, << workoutId, exerciseId >>, 0,
                      "SQLITE_CONSTRAINT_FOREIGNKEY")
  /\ UNCHANGED << workouts, exercises >>
  /\ Touch

\* an updateSet that writes the default load type when none is given
updateSetDefaultLoadType(id, weight, reps, loadType) ==
  /\ Ready
  /\ sets' = { IF s.id = id
               THEN [s EXCEPT !.weight = weight, !.reps = reps,
                              !.load_type = IF loadType # NULL THEN loadType
                                            ELSE "weighted"]
               ELSE s : s \in sets }
  /\ DoneWith("updateSet", id, << weight, reps, loadType >>, 0, NULL)
  /\ UNCHANGED << workouts, exercises, seq, conns >>
  /\ Touch

\* loadType = NULL stands for the omitted argument
updateSet(id, weight, reps, loadType) ==
  /\ Ready
  /\ sets' = { IF s.id = id
               THEN IF loadType # NULL
                    THEN [s EXCEPT !.weight = weight, !.reps = reps, !.load_type = loadType]
                    ELSE [s EXCEPT !.weight = weight, !.reps = reps]
               ELSE s : s \in sets }
  /\ DoneWith("updateSet", id, << weight, reps, loadType >>, 0, NULL)
  /\ UNCHANGED << workouts, exercises, seq, conns >>
  /\ Touch

deleteSet(id) ==
  /\ Ready
  /\ sets' = { s \in sets : s.id # id }
  /\ Done("deleteSet", << >>, << >>, id, 0, NULL)
  /\ UNCHANGED << workouts, exercises, seq, conns >>
  /\ Touch

(***************************************************************************)
(* Statistics.                                                             *)
(***************************************************************************)
\* COALESCE(v, d); an aggregate is << >> for SQL NULL and << n >> for n
Coalesce(v, d) == IF v = << >> THEN d ELSE v[1]

RECURSIVE SumWeight(_)
\* SUM(weight) over the rows
SumWeight(rows) ==
  IF rows = {} THEN << >>
  ELSE LET s == CHOOSE r \in rows : TRUE
       IN  << s.weight + Coalesce(SumWeight(rows \ {s}), 0) >>

RECURSIVE SumVolume(_)
\* SUM(weight * reps) over the rows; SQL SUM of no row is NULL
SumVolume(rows) ==
  IF rows = {} THEN << >>
  ELSE LET s == CHOOSE r \in rows : TRUE
       IN  << s.weight * s.reps + Coalesce(SumVolume(rows \ {s}), 0) >>

\* the one row the SELECT of getWorkoutStats returns
StatsRow ==
  [totalWorkouts |-> Cardinality(workouts),
   totalSets |-> Cardinality(sets),
   totalVolume |-> Coalesce(SumVolume(sets), 0),
   uniqueExercises |-> Cardinality(exercises)]

getWorkoutStats ==
  /\ Ready
  /\ DoneWith("getWorkoutStats", 0, << >>, StatsRow, NULL)
  /\ UNCHANGED << workouts, exercises, sets, seq, conns >>
  /\ Touch

(***************************************************************************)
(* Data management.                                                        *)
(***************************************************************************)
\* a clearAllData that leaves the exercise definitions
clearAllDataKeepsExercises ==
  /\ Ready
  /\ sets' = {}
  /\ exercises' = exercises
  /\ workouts' = {}
  /\ DoneWith("clearAllData", 0,
              << Cardinality(workouts), Cardinality(exercises), Cardinality(sets) >>,
              0, NULL)
  /\ UNCHANGED << seq, conns >>
  /\ Touch

\* DELETE FROM sets; DELETE FROM exercises; DELETE FROM workouts.  The
\* sets go first, so no DELETE meets a referencing row; lastOp keeps the
\* numbers of rows the call found.
clearAllData ==
  /\ Ready
  /\ sets' = {}
  /\ exercises' = {}
  /\ workouts' = {}
  /\ DoneWith("clearAllData", 0,
              << Cardinality(workouts), Cardinality(exercises), Cardinality(sets) >>,
              0, NULL)
  /\ UNCHANGED << seq, conns >>
  /\ Touch

(***************************************************************************)
(* Default data seeding.                                                   *)
(***************************************************************************)
RECURSIVE SeedLoopNoCheck(_, _)
\* the loop without the SELECT: every entry is inserted
SeedLoopNoCheck(list, st) ==
  IF list = << >> THEN st
  ELSE LET e == Head(list) IN
       SeedLoopNoCheck(Tail(list),
         [exs |-> st.exs \cup { [id |-> st.next + 1, name |-> e.name,
                                 category |-> e.category, i18n_key |-> e.i18n_key] },
          next |-> st.next + 1,
          created |-> st.created + 1,
          last |-> st.next + 1])

RECURSIVE SeedLoop(_, _)
\* the loop of seedDefaultExercises over the rest of the list;
\* st = [exs, next, created, last]
SeedLoop(list, st) ==
  IF list = << >> THEN st
  ELSE LET e == Head(list) IN
       IF FindExercise(st.exs, e.name, e.category) # {}
       THEN SeedLoop(Tail(list), st)
       ELSE SeedLoop(Tail(list),
              [exs |-> st.exs \cup { [id |-> st.next + 1, name |-> e.name,
                                      category |-> e.category, i18n_key |-> e.i18n_key] },
               next |-> st.next + 1,
               created |-> st.created + 1,
               last |-> st.next + 1])

seedDefaultExercises(list) ==
  /\ Ready
  /\ LET st == SeedLoop(list, [exs |-> exercises, next |-> seq.exercises,
                               created |-> 0, last |-> conns[db].lastRow]) IN
       /\ exercises' = st.exs
       /\ seq' = [seq EXCEPT !.exercises = st.next]
       /\ SetLastRow(st.last)
       /\ DoneWith("seedDefaultExercises", 0, list, st.created, NULL)
  /\ UNCHANGED << workouts, sets >>
  /\ Touch

(***************************************************************************)
(* Bulk import.                                                            *)
(***************************************************************************)
\* `${name}|${category}`
ExerciseKey(name, category) == name \o << "|" >> \o category

\* Map.get: the id stored under key, 0 (undefined) when absent
MapGet(map, key) ==
  IF \E p \in map : p[1] = key THEN (CHOOSE p \in map : p[1] = key)[2] ELSE 0

RECURSIVE ImportExercisesCountAll(_, _)
\* step 2 with every listed exercise counted, the existing ones included
ImportExercisesCountAll(list, st) ==
  IF list = << >> THEN st
  ELSE LET e == Head(list)
           key == ExerciseKey(e.name, e.category)
       IN
       IF FindExercise(st.exs, e.name, e.category) # {}
       THEN ImportExercisesCountAll(Tail(list),
              [st EXCEPT !.map = @ \cup
                           { << key, ExerciseId(st.exs, e.name, e.category) >> },
                         !.created = @ + 1])
       ELSE ImportExercisesCountAll(Tail(list),
              [exs |-> st.exs \cup { [id |-> st.next + 1, name |-> e.name,
                                      category |-> e.category, i18n_key |-> NULL] },
               map |-> st.map \cup { << key, st.next + 1 >> },
               next |-> st.next + 1,
               created |-> st.created + 1,
               last |-> st.next + 1])

RECURSIVE ImportExercises(_, _)
\* step 2 of bulkImport; st = [exs, map, next, created, last]
ImportExercises(list, st) ==
  IF list = << >> THEN st
  ELSE LET e == Head(list)
           key == ExerciseKey(e.name, e.category)
       IN
       IF MapGet(st.map, key) # 0 THEN ImportExercises(Tail(list), st)
       ELSE IF FindExercise(st.exs, e.name, e.category) # {}
       THEN ImportExercises(Tail(list),
              [st EXCEPT !.map = @ \cup
                 { << key, ExerciseId(st.exs, e.name, e.category) >> }])
       ELSE ImportExercises(Tail(list),
              [exs |-> st.exs \cup { [id |-> st.next + 1, name |-> e.name,
                                      category |-> e.category, i18n_key |-> NULL] },
               map |-> st.map \cup { << key, st.next + 1 >> },
               next |-> st.next + 1,
               created |-> st.created + 1,
               last |-> st.next + 1])

RECURSIVE ImportSetsStopAtBad(_, _, _, _)
\* step 3 leaving the loop at the first set it cannot resolve
ImportSetsStopAtBad(list, workoutIdMap, exerciseIdMap, st) ==
  IF list = << >> THEN st
  ELSE LET s == Head(list)
           workoutId == IF s.workoutIndex + 1 \in DOMAIN workoutIdMap
                        THEN workoutIdMap[s.workoutIndex + 1] ELSE 0
           exerciseId == MapGet(exerciseIdMap,
                                ExerciseKey(s.exerciseName, s.exerciseCategory))
       IN
       IF workoutId # 0 /\ exerciseId # 0
       THEN ImportSetsStopAtBad(Tail(list), workoutIdMap, exerciseIdMap,
              [rows |-> st.rows \cup
                 { [id |-> st.next + 1, workout_id |-> workoutId,
                    exercise_id |-> exerciseId, weight |-> s.weight, reps |-> s.reps,
                    load_type |-> s.loadType, set_order |-> s.setOrder] },
               next |-> st.next + 1,
               created |-> st.created + 1,
               last |-> st.next + 1])
       ELSE st

RECURSIVE ImportSets(_, _, _, _)
\* step 3 of bulkImport; workoutIdMap[set.workoutIndex] is undefined out of
\* range; st = [rows, next, created, last]
ImportSets(list, workoutIdMap, exerciseIdMap, st) ==
  IF list = << >> THEN st
  ELSE LET s == Head(list)
           workoutId == IF s.workoutIndex + 1 \in DOMAIN workoutIdMap
                        THEN workoutIdMap[s.workoutIndex + 1] ELSE 0
           exerciseId == MapGet(exerciseIdMap,
                                ExerciseKey(s.exerciseName, s.exerciseCategory))
       IN
       IF workoutId # 0 /\ exerciseId # 0
       THEN ImportSets(Tail(list), workoutIdMap, exerciseIdMap,
              [rows |-> st.rows \cup
                 { [id |-> st.next + 1, workout_id |-> workoutId,
                    exercise_id |-> exerciseId, weight |-> s.weight, reps |-> s.reps,
                    load_type |-> s.loadType, set_order |-> s.setOrder] },
               next |-> st.next + 1,
               created |-> st.created + 1,
               last |-> st.next + 1])
       ELSE ImportSets(Tail(list), workoutIdMap, exerciseIdMap, st)

bulkImport(data) ==
  /\ Ready
  /\ LET n == Len(data.workouts)
         workoutIdMap == [i \in 1..n |-> seq.workouts + i]
         last1 == IF n = 0 THEN conns[db].lastRow ELSE seq.workouts + n
         ex == ImportExercises(data.exercises,
                 [exs |-> exercises, map |-> {}, next |-> seq.exercises,
                  created |-> 0, last |-> last1])
         st == ImportSets(data.sets, workoutIdMap, ex.map,
                 [rows |-> sets, next |-> seq.sets, created |-> 0, last |-> ex.last])
     IN
       /\ workouts' = workouts \cup
            { [id |-> seq.workouts + i, date |-> data.workouts[i].date,
               notes |-> data.workouts[i].notes] : i \in 1..n }
       /\ exercises' = ex.exs
       /\ sets' = st.rows
       /\ seq' = [workouts |-> seq.workouts + n, exercises |-> ex.next,
                  sets |-> st.next]
       /\ SetLastRow(st.last)
       /\ DoneWith("bulkImport", 0, data, << n, ex.created, st.created >>, NULL)
  /\ Touch

\* what the statements of the transaction body have written once all of
\* data is processed: the tables, sqlite_sequence and the last insert row id
ImportRun(data) ==
  LET n == Len(data.workouts)
      workoutIdMap == [i \in 1..n |-> seq.workouts + i]
      last1 == IF n = 0 THEN conns[db].lastRow ELSE seq.workouts + n
      ex == ImportExercises(data.exercises,
              [exs |-> exercises, map |-> {}, next |-> seq.exercises,
               created |-> 0, last |-> last1])
      st == ImportSets(data.sets, workoutIdMap, ex.map,
              [rows |-> sets, next |-> seq.sets, created |-> 0, last |-> ex.last])
  IN  [workouts |-> workouts \cup
         { [id |-> seq.workouts + i, date |-> data.workouts[i].date,
            notes |-> data.workouts[i].notes] : i \in 1..n },
       exercises |-> ex.exs,
       sets |-> st.rows,
       seq |-> [workouts |-> seq.workouts + n, exercises |-> ex.next,
                sets |-> st.next],
       last |-> st.last]

\* the part of data whose statements complete before the statement that
\* fails: done items of the phase the failure is in, all of the phases before
Completed(data, phase, done) ==
  CASE phase = "workouts" ->
         [workouts |-> SubSeq(data.workouts, 1, done), exercises |-> << >>,
          sets |-> << >>]
    [] phase = "exercises" ->
         [workouts |-> data.workouts, exercises |-> SubSeq(data.exercises, 1, done),
          sets |-> << >>]
    [] phase = "sets" ->
         [workouts |-> data.workouts, exercises |-> data.exercises,
          sets |-> SubSeq(data.sets, 1, done)]

\* item done + 1 of the phase issues a statement: every workout does, an
\* exercise unless its key is already in the map, a set unless it is skipped
IssuesStatement(data, phase, done) ==
  /\ done < Len(data[phase])
  /\ phase = "exercises" =>
       \A j \in 1..done :
         ExerciseKey(data.exercises[j].name, data.exercises[j].category) #
         ExerciseKey(data.exercises[done + 1].name, data.exercises[done + 1].category)
  /\ phase = "sets" =>
       ImportRun(Completed(data, phase, done + 1)).seq.sets >
       ImportRun(Completed(data, phase, done)).seq.sets

\* a transaction that is left as it is when its body throws
NoRollback(before, after) == after

\* withTransactionAsync, body throws: ROLLBACK restores the tables and
\* sqlite_sequence to their state at BEGIN, and the error is thrown on
Rollback(before, after) == before

\* bulkImport whose statement after `done` items of `phase` is rejected by
\* the store: the transaction rolls back and the call rejects.  The last
\* insert row id is connection state and is not rolled back.
bulkImportFails(data, phase, done) ==
  /\ Ready
  /\ IssuesStatement(data, phase, done)
  /\ LET before == [workouts |-> workouts, exercises |-> exercises, sets |-> sets,
                    seq |-> seq]
         after == ImportRun(Completed(data, phase, done))
         now == Rollback(before, after)
     IN
       /\ workouts' = now.workouts
       /\ exercises' = now.exercises
       /\ sets' = now.sets
       /\ seq' = now.seq
       /\ SetLastRow(after.last)
       /\ DoneWith("bulkImport", 0, data, << 0, 0, 0 >>, "SQLITE_ERROR")
  /\ Touch

(***************************************************************************)
(* getDatabase, initializeSchema and migrateExerciseI18nKey.               *)
(*                                                                         *)
(* call[c].pc names the statement the call is suspended in:                *)
(*   "open"   await SQLite.openDatabaseAsync('liftlog.db')                 *)
(*   "exec"   await db.execAsync(PRAGMA ...; CREATE TABLE IF NOT EXISTS ...)*)
(*   "alter"  await db.execAsync('ALTER TABLE exercises ADD COLUMN ...')   *)
(*   "select" await db.getAllAsync('SELECT id, name ... i18n_key IS NULL') *)
(*   "update" await db.runAsync('UPDATE exercises SET i18n_key = ? ...')   *)
(* call[c].h is the connection that statement runs on: the value of the    *)
(* module variable `db` when the statement was issued.                     *)
(***************************************************************************)
InFlight(c) == call[c].pc \in { "open", "exec", "alter", "select", "update" }

Closed(h) == conns[h].closed > 0

\* the promise of getDatabase resolves with h
Resolve(c, h, ranMigration) ==
  /\ call' = [call EXCEPT ![c] = [@ EXCEPT !.pc = "done", !.ret = h, !.rows = << >>]]
  /\ resolved' = resolved \cup { h }
  /\ nCalls' = nCalls + 1
  /\ migrated' = (migrated \/ ranMigration)

\* the promise of getDatabase rejects
Reject(c, err) ==
  /\ call' = [call EXCEPT ![c] = [@ EXCEPT !.pc = "failed", !.err = err, !.rows = << >>]]
  /\ UNCHANGED << resolved, nCalls, migrated >>

\* the call issues a statement on `db` and awaits it
Suspend(c, pc, rows) ==
  /\ call' = [call EXCEPT ![c] = [@ EXCEPT !.pc = pc, !.h = db, !.rows = rows]]
  /\ UNCHANGED << resolved, nCalls, migrated >>

RECURSIVE SkipUnmapped(_)
\* for (const row of rows) ... if (key): rows without a key are passed over
SkipUnmapped(rows) ==
  IF rows = << >> \/ BackfillKey(Head(rows).name) # NULL THEN rows
  ELSE SkipUnmapped(Tail(rows))

\* the backfill loop from `rows` on, up to its next await or to the return
\* of getDatabase
BackfillFrom(c, rows) ==
  IF SkipUnmapped(rows) = << >> THEN Resolve(c, db, TRUE)
  ELSE IF db = NoHandle THEN Reject(c, "TypeError")
  ELSE Suspend(c, "update", SkipUnmapped(rows))

\* openDatabaseAsync is invoked; the call awaits it
StartOpen(c) ==
  /\ openCalls < MaxOpens
  /\ Len(conns) + Cardinality({ d \in Callers : call[d].pc = "open" }) < MaxOpens
  /\ call' = [call EXCEPT ![c] = [IdleCall EXCEPT !.pc = "open"]]
  /\ openCalls' = openCalls + 1
  /\ UNCHANGED << resolved, nCalls >>

\* getDatabase without the `if (db) return db` guard
GetDatabaseNoMemo(c) ==
  /\ ~InFlight(c)
  /\ closer.pc = "idle"
  /\ nCalls < MaxCalls
  /\ StartOpen(c)
  /\ overlap' = (overlap \/ \E d \in Callers : InFlight(d))
  /\ UNCHANGED << db, conns, closer, hasTables, hasCol, schemaRuns, migrated >>
  /\ UNCHANGED dataVars

GetDatabase(c) ==
  /\ ~InFlight(c)
  /\ closer.pc = "idle"
  /\ nCalls < MaxCalls
  /\ IF db # NoHandle
     THEN /\ call' = [call EXCEPT ![c] = [IdleCall EXCEPT !.pc = "done", !.ret = db]]
          /\ resolved' = resolved \cup { db }
          /\ nCalls' = nCalls + 1
          /\ UNCHANGED openCalls
     ELSE StartOpen(c)
  /\ overlap' = (overlap \/ \E d \in Callers : InFlight(d))
  /\ UNCHANGED << db, conns, closer, hasTables, hasCol, schemaRuns, migrated >>
  /\ UNCHANGED dataVars

\* openDatabaseAsync resolves: db = <new handle>; initializeSchema() runs up
\* to its first await
OpenResolve(c) ==
  /\ call[c].pc = "open"
  /\ LET h == Len(conns) + 1 IN
       /\ conns' = Append(conns, [closed |-> 0, fk |-> FALSE, lastRow |-> 0])
       /\ db' = h
       /\ call' = [call EXCEPT ![c] = [@ EXCEPT !.pc = "exec", !.h = h]]
  /\ schemaRuns' = schemaRuns + 1
  /\ closer' = [closer EXCEPT !.n = 0]
  /\ UNCHANGED << hasTables, hasCol, openCalls, resolved, nCalls, overlap, migrated >>
  /\ UNCHANGED dataVars

\* the schema batch completes; migrateExerciseI18nKey() runs up to its first
\* await, or returns at once when db is null
ExecResolve(c) ==
  /\ call[c].pc = "exec"
  /\ IF Closed(call[c].h)
     THEN /\ Reject(c, "closed")
          /\ UNCHANGED << conns, hasTables >>
     ELSE /\ conns' = [conns EXCEPT ![call[c].h].fk = TRUE]
          /\ hasTables' = TRUE
          /\ IF db = NoHandle THEN Resolve(c, db, FALSE) ELSE Suspend(c, "alter", << >>)
  /\ UNCHANGED << db, closer, hasCol, openCalls, schemaRuns, overlap >>
  /\ UNCHANGED dataVars

\* try { await db.execAsync('ALTER TABLE ...') } catch { }: whatever the
\* statement threw is dropped; then the SELECT is issued on db
AlterResult(h) ==
  IF Closed(h) THEN "closed"
  ELSE IF hasCol THEN "duplicate column name: i18n_key"
  ELSE "ok"

\* a catch that swallows nothing
CaughtNothing(err) == FALSE

\* the bare `catch { }` around the ALTER TABLE: every error is swallowed
Caught(err) == TRUE

AlterResolve(c) ==
  /\ call[c].pc = "alter"
  /\ hasCol' = (hasCol \/ AlterResult(call[c].h) = "ok")
  /\ IF AlterResult(call[c].h) # "ok" /\ ~Caught(AlterResult(call[c].h))
     THEN Reject(c, AlterResult(call[c].h))
     ELSE IF db = NoHandle THEN Reject(c, "TypeError")
     ELSE Suspend(c, "select", << >>)
  /\ UNCHANGED << db, conns, closer, hasTables, openCalls, schemaRuns, overlap >>
  /\ UNCHANGED dataVars

\* the SELECT without its WHERE clause
SelectAllRows(exs) == ById(exs)

\* SELECT id, name FROM exercises WHERE i18n_key IS NULL
SelectNullKeys(exs) == ById({ r \in exs : r.i18n_key = NULL })

SelectResolve(c) ==
  /\ call[c].pc = "select"
  /\ IF Closed(call[c].h) THEN Reject(c, "closed")
     ELSE IF ~hasCol THEN Reject(c, "no such column: i18n_key")
     ELSE BackfillFrom(c, SelectNullKeys(exercises))
  /\ UNCHANGED << db, conns, closer, hasTables, hasCol, openCalls, schemaRuns, overlap >>
  /\ UNCHANGED dataVars

\* UPDATE exercises SET i18n_key = ? WHERE id = ?
UpdateKey(exs, id, key) ==
  { IF r.id = id THEN [r EXCEPT !.i18n_key = key] ELSE r : r \in exs }

UpdateResolve(c) ==
  /\ call[c].pc = "update"
  /\ IF Closed(call[c].h)
     THEN /\ Reject(c, "closed")
          /\ UNCHANGED exercises
     ELSE /\ exercises' = UpdateKey(exercises, Head(call[c].rows).id,
                                    BackfillKey(Head(call[c].rows).name))
          /\ BackfillFrom(c, Tail(call[c].rows))
  /\ UNCHANGED << db, conns, closer, hasTables, hasCol, openCalls, schemaRuns, overlap >>
  /\ UNCHANGED << workouts, sets, seq, atOp, lastOp >>

(***************************************************************************)
(* closeDatabase.                                                          *)
(***************************************************************************)
NewEpoch ==
  /\ openCalls' = 0
  /\ schemaRuns' = 0
  /\ resolved' = {}
  /\ nCalls' = 0
  /\ overlap' = FALSE

\* if (db) { await db.closeAsync(); ... }: closeAsync on a closed handle throws
CloseDatabase ==
  /\ Quiet
  /\ closer.n < MaxCloses
  /\ IF db = NoHandle
     THEN /\ closer' = [closer EXCEPT !.n = @ + 1]
          /\ NewEpoch
          /\ UNCHANGED conns
     ELSE /\ conns' = [conns EXCEPT ![db].closed = @ + 1]
          /\ closer' = [closer EXCEPT !.pc = IF Closed(db) THEN "failed" ELSE "closing",
                                      !.h = db]
          /\ UNCHANGED << openCalls, schemaRuns, resolved, nCalls, overlap >>
  /\ UNCHANGED << db, call, hasTables, hasCol, migrated >>
  /\ UNCHANGED dataVars

\* closeDatabase without `db = null`
CloseResolveKeepsDb ==
  /\ closer.pc = "closing"
  /\ closer' = [pc |-> "idle", h |-> NoHandle, n |-> closer.n + 1]
  /\ NewEpoch
  /\ UNCHANGED << db, conns, call, hasTables, hasCol, migrated >>
  /\ UNCHANGED dataVars

\* closeAsync resolves: db = null
CloseResolve ==
  /\ closer.pc = "closing"
  /\ db' = NoHandle
  /\ closer' = [pc |-> "idle", h |-> NoHandle, n |-> closer.n + 1]
  /\ NewEpoch
  /\ UNCHANGED << conns, call, hasTables, hasCol, migrated >>
  /\ UNCHANGED dataVars

(***************************************************************************)
(* Inputs.                                                                 *)
(***************************************************************************)
Notes == { NULL }
DataNames == { <<"B">>, <<"x">> }
SetOrders == { 0 }

SeedLists ==
  { << [name |-> <<"B">>, category |-> <<"P">>,
        i18n_key |-> "defaultExercises.benchPress"] >>,
    << [name |-> <<"x">>, category |-> <<"P">>,
        i18n_key |-> "defaultExercises.squats"] >>,
    << [name |-> <<"B">>, category |-> <<"P">>,
        i18n_key |-> "defaultExercises.benchPress"],
       [name |-> <<"B">>, category |-> <<"P">>,
        i18n_key |-> "defaultExercises.benchPress"],
       [name |-> <<"x">>, category |-> <<"L">>,
        i18n_key |-> "defaultExercises.squats"] >> }

ImportPairs == { <<"B">>, <<"x">> } \X { <<"P">> }

ImportExerciseLists ==
  { << >> } \cup
  { << [name |-> p[1], category |-> p[2]] >> : p \in ImportPairs } \cup
  { << [name |-> p[1], category |-> p[2]], [name |-> q[1], category |-> q[2]] >>
    : p \in ImportPairs, q \in ImportPairs }

ImportSetLists ==
  { << >> } \cup
  { << [workoutIndex |-> i, exerciseName |-> p[1], exerciseCategory |-> p[2],
        weight |-> 1, reps |-> 5, loadType |-> "bodyweight", setOrder |-> 0] >>
    : i \in { 0, 1 }, p \in ImportPairs }

ImportData ==
  { [workouts |-> w, exercises |-> e, sets |-> s]
    : w \in { << >>, << [date |-> 1, notes |-> NULL] >> },
      e \in ImportExerciseLists,
      s \in ImportSetLists }

(***************************************************************************)
(* The handle life cycle: getDatabase calls of two callers, closeDatabase  *)
(* between them, and the data operations that fill the file.               *)
(***************************************************************************)
Next ==
  \/ \E c \in Callers : GetDatabase(c)
  \/ \E c \in Callers : OpenResolve(c)
  \/ \E c \in Callers : ExecResolve(c)
  \/ \E c \in Callers : AlterResolve(c)
  \/ \E c \in Callers : SelectResolve(c)
  \/ \E c \in Callers : UpdateResolve(c)
  \/ CloseDatabase
  \/ CloseResolve
  \/ /\ seq.workouts < MaxLifeRows
     /\ createWorkout(1, NULL)
  \/ \E name \in Names :
       /\ seq.exercises < MaxLifeRows \/ FindExercise(exercises, name, <<"P">>) # {}
       /\ createExercise(name, <<"P">>)
  \/ \E list \in SeedLists :
       /\ seq.exercises + Len(list) <= MaxLifeRows
       /\ seedDefaultExercises(list)
  \/ \E id \in 1..MaxLifeRows, name \in Names : updateExercise(id, name, <<"P">>)
  \/ /\ seq.sets < MaxLifeRows
     /\ \E w \in 1..MaxLifeRows, e \in 1..MaxLifeRows :
          createSet(w, e, 1, 5, "weighted", 0)

Spec == Init /\ [][Next]_vars

(***************************************************************************)
(* The data operations on an acquired handle.                              *)
(***************************************************************************)
NextData ==
  \/ db = NoHandle /\ GetDatabase(1)
  \/ OpenResolve(1)
  \/ ExecResolve(1)
  \/ AlterResolve(1)
  \/ SelectResolve(1)
  \/ /\ seq.workouts < MaxWorkouts
     /\ \E date \in Dates, notes \in Notes : createWorkout(date, notes)
  \/ \E id \in 1..MaxWorkouts, date \in Dates, notes \in Notes :
       updateWorkout(id, date, notes)
  \/ \E id \in 1..MaxWorkouts : deleteWorkout(id)
  \/ \E name \in DataNames, category \in Categories :
       /\ seq.exercises < MaxExercises \/ FindExercise(exercises, name, category) # {}
       /\ createExercise(name, category)
  \/ \E name \in DataNames, category \in Categories :
       /\ seq.exercises < MaxExercises \/ FindExercise(exercises, name, category) # {}
       /\ getOrCreateExercise(name, category)
  \/ \E id \in 1..MaxExercises, name \in DataNames, category \in Categories :
       updateExercise(id, name, category)
  \/ \E id \in 1..MaxExercises : deleteExercise(id)
  \/ /\ seq.sets < MaxSets
     /\ \E w \in 1..MaxWorkouts, e \in 1..MaxExercises, weight \in Weights,
           reps \in RepsVals, loadType \in LoadTypes, setOrder \in SetOrders :
          createSet(w, e, weight, reps, loadType, setOrder)
  \/ \E id \in 1..MaxSets, weight \in Weights, reps \in RepsVals,
        loadType \in LoadTypes \cup { NULL } :
       updateSet(id, weight, reps, loadType)
  \/ \E id \in 1..MaxSets : deleteSet(id)
  \/ \E list \in SeedLists :
       /\ Ready
       /\ SeedLoop(list, [exs |-> exercises, next |-> seq.exercises, created |-> 0,
                          last |-> 0]).next <= MaxExercises
       /\ seedDefaultExercises(list)
  \/ \E data \in ImportData :
       /\ seq.workouts + Len(data.workouts) <= MaxWorkouts
       /\ seq.exercises + Len(data.exercises) <= MaxExercises
       /\ seq.sets + Len(data.sets) <= MaxSets
       /\ bulkImport(data)
  \/ clearAllData

SpecData == Init /\ [][NextData]_vars

(***************************************************************************)
(* Sets of several workouts and exercises: logging, editing, deleting and  *)
(* the statistics over them.                                               *)
(***************************************************************************)
NextSets ==
  \/ db = NoHandle /\ GetDatabase(1)
  \/ OpenResolve(1)
  \/ ExecResolve(1)
  \/ AlterResolve(1)
  \/ SelectResolve(1)
  \/ /\ seq.workouts < MaxRows
     /\ createWorkout(1, NULL)
  \/ \E name \in DataNames :
       /\ seq.exercises < MaxRows
       /\ FindExercise(exercises, name, <<"P">>) = {}
       /\ createExercise(name, <<"P">>)
  \/ /\ seq.sets < MaxRows
     /\ \E w \in 1..MaxRows, e \in 1..MaxRows, weight \in Weights,
           loadType \in LoadTypes :
          createSet(w, e, weight, 5, loadType, 0)
  \/ \E id \in 1..MaxRows, weight \in Weights, loadType \in LoadTypes \cup { NULL } :
       updateSet(id, weight, 5, loadType)
  \/ \E id \in 1..MaxRows : deleteWorkout(id)
  \/ \E id \in 1..MaxRows : deleteExercise(id)
  \/ \E id \in 1..MaxRows : deleteSet(id)
  \/ getWorkoutStats

SpecSets == Init /\ [][NextSets]_vars

(***************************************************************************)
(* The bulk import, on a store that may already hold rows, with statements *)
(* of the transaction that may fail.                                       *)
(***************************************************************************)
ImportSet(workoutIndex, name, weight) ==
  [workoutIndex |-> workoutIndex, exerciseName |-> name, exerciseCategory |-> <<"P">>,
   weight |-> weight, reps |-> 5, loadType |-> "weighted", setOrder |-> 0]

OneWorkout == << [date |-> 1, notes |-> NULL] >>
TwoWorkouts == << [date |-> 1, notes |-> NULL], [date |-> 2, notes |-> NULL] >>
ExB == [name |-> <<"B">>, category |-> <<"P">>]
ExX == [name |-> <<"x">>, category |-> <<"P">>]

\* a plain batch; two workouts with a set each; a set of a workout index past
\* the end before a valid one; a repeated exercise and a negative index; no
\* workout at all; a set of an exercise the batch does not list
ImportBatches ==
  { [workouts |-> OneWorkout, exercises |-> << ExB >>,
     sets |-> << ImportSet(0, <<"B">>, 1) >>],
    [workouts |-> TwoWorkouts, exercises |-> << ExB, ExX >>,
     sets |-> << ImportSet(0, <<"B">>, 1), ImportSet(1, <<"x">>, 2) >>],
    [workouts |-> OneWorkout, exercises |-> << ExB, ExX >>,
     sets |-> << ImportSet(2, <<"B">>, 1), ImportSet(0, <<"x">>, 2) >>],
    [workouts |-> OneWorkout, exercises |-> << ExB, ExB >>,
     sets |-> << ImportSet(0 - 1, <<"B">>, 1), ImportSet(0, <<"B">>, 2) >>],
    [workouts |-> << >>, exercises |-> << ExB >>,
     sets |-> << ImportSet(0, <<"B">>, 1) >>],
    [workouts |-> OneWorkout, exercises |-> << >>,
     sets |-> << ImportSet(0, <<"B">>, 1) >>] }

\* the rows of the tables stay within the bound
ImportFits(data) ==
  /\ Ready
  /\ LET after == ImportRun(data).seq IN
       /\ after.workouts <= MaxImportRows
       /\ after.exercises <= MaxImportRows
       /\ after.sets <= MaxImportRows

NextImport ==
  \/ db = NoHandle /\ GetDatabase(1)
  \/ OpenResolve(1)
  \/ ExecResolve(1)
  \/ AlterResolve(1)
  \/ SelectResolve(1)
  \/ /\ seq.workouts < 1
     /\ createWorkout(2, NULL)
  \/ \E name \in DataNames :
       /\ seq.exercises < 1
       /\ createExercise(name, <<"P">>)
  \/ \E data \in ImportBatches :
       /\ ImportFits(data)
       /\ bulkImport(data)
  \/ \E data \in ImportBatches, phase \in { "workouts", "exercises", "sets" },
        done \in 0..1 :
       /\ ImportFits(data)
       /\ bulkImportFails(data, phase, done)
  \/ clearAllData

SpecImport == Init /\ [][NextImport]_vars

(***************************************************************************)
(* The bulk import of names and categories that hold the separator of the  *)
(* lookup key.                                                             *)
(***************************************************************************)
KeySet(name, category, weight) ==
  [workoutIndex |-> 0, exerciseName |-> name, exerciseCategory |-> category,
   weight |-> weight, reps |-> 5, loadType |-> "weighted", setOrder |-> 0]

\* ('a|b', 'c') and ('a', 'b|c'): two pairs, one key 'a|b|c'
ExAB == [name |-> <<"a", "|", "b">>, category |-> <<"c">>]
ExBC == [name |-> <<"a">>, category |-> <<"b", "|", "c">>]

\* a plain batch; both pairs of one key with a set each; one pair listed and
\* a set of the other; a set of an exercise the batch does not list
KeyBatches ==
  { [workouts |-> OneWorkout, exercises |-> << ExB >>,
     sets |-> << ImportSet(0, <<"B">>, 1) >>],
    [workouts |-> OneWorkout, exercises |-> << ExAB, ExBC >>,
     sets |-> << KeySet(ExAB.name, ExAB.category, 1),
                 KeySet(ExBC.name, ExBC.category, 2) >>],
    [workouts |-> OneWorkout, exercises |-> << ExBC >>,
     sets |-> << KeySet(ExAB.name, ExAB.category, 1) >>],
    [workouts |-> OneWorkout, exercises |-> << >>,
     sets |-> << ImportSet(0, <<"B">>, 1) >>] }

NextKeys ==
  \/ db = NoHandle /\ GetDatabase(1)
  \/ OpenResolve(1)
  \/ ExecResolve(1)
  \/ AlterResolve(1)
  \/ SelectResolve(1)
  \/ \E e \in { ExB, ExAB, ExBC } :
       /\ seq.exercises < 1
       /\ createExercise(e.name, e.category)
  \/ \E data \in KeyBatches :
       /\ ImportFits(data)
       /\ bulkImport(data)
  \/ clearAllData

SpecKeys == Init /\ [][NextKeys]_vars

(***************************************************************************)
(* The screens that write sets: the log-set action of the workout screen   *)
(* and the edit-set action of the history screen.  The text of a picker is *)
(* a string; a JS number is [nan, val].                                    *)
(***************************************************************************)
NaN == [nan |-> TRUE, val |-> 0]
Num(n) == [nan |-> FALSE, val |-> n]

DigitChars == { "0", "1", "2", "3", "4", "5", "6", "7", "8", "9" }

DigitVal(c) ==
  CASE c = "0" -> 0 [] c = "1" -> 1 [] c = "2" -> 2 [] c = "3" -> 3 [] c = "4" -> 4
    [] c = "5" -> 5 [] c = "6" -> 6 [] c = "7" -> 7 [] c = "8" -> 8 [] c = "9" -> 9

RECURSIVE LeadingDigits(_)
\* the longest prefix of s made of digits
LeadingDigits(s) ==
  IF s # << >> /\ Head(s) \in DigitChars THEN << Head(s) >> \o LeadingDigits(Tail(s))
  ELSE << >>

RECURSIVE IntVal(_)
\* the value of a string of digits
IntVal(ds) ==
  IF ds = << >> THEN 0
  ELSE IntVal(SubSeq(ds, 1, Len(ds) - 1)) * 10 + DigitVal(ds[Len(ds)])

\* parseInt(s, 10) of an unsigned numeral: the leading digits, NaN without one
ParseInt(s) ==
  LET ds == LeadingDigits(TrimStart(s)) IN
  IF ds = << >> THEN NaN ELSE Num(IntVal(ds))

\* parseFloat(s) of an unsigned numeral: digits, then "." and digits; the
\* value is kept for whole numbers only, the fractions the model enters
ParseFloat(s) ==
  LET t == TrimStart(s)
      ip == LeadingDigits(t)
      rest == SubSeq(t, Len(ip) + 1, Len(t))
      frac == IF rest # << >> /\ Head(rest) = "." THEN LeadingDigits(Tail(rest))
              ELSE << >>
  IN  CASE ip = << >> /\ frac = << >> -> NaN
        [] (ip # << >> \/ frac # << >>) /\ IntVal(frac) = 0 -> Num(IntVal(ip))

\* new Date(): the day of every call in a behaviour
Today == 1

\* the log-set action: today's workout is found or created, then the set is
\* created with the bodyweight sentinel 1 for an entered 0
saveWorkout(selectedExercise, weight, reps) ==
  /\ Ready
  /\ IF weight = << >> \/ reps = << >>
     THEN /\ UNCHANGED << workouts, sets, seq, conns >>
          /\ DoneWith("saveWorkout", 0, << weight, reps >>, 0, "fillAllFields")
     ELSE LET todayWorkouts == { w \in workouts : w.date = Today }
              workoutId == IF todayWorkouts # {}
                           THEN (CHOOSE w \in todayWorkouts : TRUE).id
                           ELSE seq.workouts + 1
              weightValue == ParseFloat(weight)
              repsValue == ParseInt(reps)
              isBodyweight == ~weightValue.nan /\ weightValue.val = 0
              rejected == \/ weightValue.nan
                          \/ repsValue.nan
                          \/ conns[db].fk /\ selectedExercise \notin Ids(exercises)
              id == seq.sets + 1
          IN
            /\ workouts' = IF todayWorkouts # {} THEN workouts
                           ELSE workouts \cup { [id |-> workoutId, date |-> Today,
                                                 notes |-> NULL] }
            /\ IF rejected
               THEN \* NaN is bound as NULL: NOT NULL fails; or the foreign key does
                    /\ UNCHANGED sets
                    /\ seq' = [seq EXCEPT !.workouts =
                                 IF todayWorkouts # {} THEN @ ELSE workoutId]
                    /\ IF todayWorkouts # {} THEN UNCHANGED conns
                       ELSE SetLastRow(workoutId)
                    /\ DoneWith("saveWorkout", 0, << weight, reps >>, 0,
                                "SQLITE_CONSTRAINT")
               ELSE /\ sets' = sets \cup
                         { [id |-> id, workout_id |-> workoutId,
                            exercise_id |-> selectedExercise,
                            weight |-> IF isBodyweight THEN 1 ELSE weightValue.val,
                            reps |-> repsValue.val,
                            load_type |-> IF isBodyweight THEN "bodyweight"
                                          ELSE "weighted",
                            set_order |->
                              Cardinality({ t \in sets : t.workout_id = workoutId })] }
                    /\ seq' = [seq EXCEPT !.workouts =
                                 IF todayWorkouts # {} THEN @ ELSE workoutId,
                                          !.sets = id]
                    /\ SetLastRow(id)
                    /\ DoneWith("saveWorkout", id, << weight, reps >>, 0, NULL)
  /\ UNCHANGED exercises
  /\ Touch

\* the edit-set action: the entered weight and reps are validated, then
\* written with the load type the set already has
handleSaveEditSet(editingSet, editWeight, editReps) ==
  /\ Ready
  /\ LET weight == ParseFloat(editWeight)
         reps == ParseInt(editReps)
     IN
       IF weight.nan \/ reps.nan \/ weight.val < 0 \/ reps.val < 1
       THEN /\ UNCHANGED sets
            /\ DoneWith("handleSaveEditSet", editingSet.id, << editWeight, editReps >>,
                        0, "fillAllFields")
       ELSE /\ sets' = { IF s.id = editingSet.id
                         THEN [s EXCEPT !.weight = weight.val, !.reps = reps.val,
                                        !.load_type = editingSet.load_type]
                         ELSE s : s \in sets }
            /\ DoneWith("handleSaveEditSet", editingSet.id, << editWeight, editReps >>,
                        0, NULL)
  /\ UNCHANGED << workouts, exercises, seq, conns >>
  /\ Touch

\* what the weight picker and the reps picker hand over: the wheel's values,
\* the empty field, and a 0 typed on the number pad
WeightInputs == { << >>, << "0", ".", "0" >>, << "2", ".", "0" >> }
RepsInputs == { << >>, << "5" >>, << "0" >> }

NextApp ==
  \/ db = NoHandle /\ GetDatabase(1)
  \/ OpenResolve(1)
  \/ ExecResolve(1)
  \/ AlterResolve(1)
  \/ SelectResolve(1)
  \/ \E name \in DataNames :
       /\ seq.exercises < MaxRows
       /\ FindExercise(exercises, name, <<"P">>) = {}
       /\ createExercise(name, <<"P">>)
  \/ /\ seq.sets < MaxRows
     /\ \E e \in 1..MaxRows, weight \in WeightInputs, reps \in RepsInputs :
          saveWorkout(e, weight, reps)
  \/ \E s \in sets, weight \in WeightInputs, reps \in RepsInputs :
       handleSaveEditSet(s, weight, reps)
  \/ \E id \in 1..MaxRows : deleteSet(id)

SpecApp == Init /\ [][NextApp]_vars

(***************************************************************************)
(* The importer of the bundled training history: importTrainingsToDatabase *)
(* prepares one batch from trainingsData and hands it to bulkImport, after *)
(* clearAllData when clearExisting is set.                                 *)
(***************************************************************************)
\* Trainings_normalized_bodyweight.json: sessions of exercises of sets; a
\* set is either unparsed (raw) or has reps and a weight, null for a
\* bodyweight set
trainingsData ==
  << [session_id |-> "1",
      exercises |-> << [name |-> <<"B">>, category |-> <<"P">>,
                        sets |-> << [raw |-> FALSE, weight |-> << 2 >>, reps |-> 5,
                                     loadType |-> "weighted"],
                                    [raw |-> TRUE, weight |-> << >>, reps |-> 0,
                                     loadType |-> NULL] >>] >>],
     [session_id |-> "2",
      exercises |-> << [name |-> <<"B">>, category |-> <<"P">>, sets |-> << >>],
                       [name |-> <<"x">>, category |-> <<"P">>,
                        sets |-> << [raw |-> FALSE, weight |-> << >>, reps |-> 5,
                                     loadType |-> NULL] >>] >>] >>

\* one session a week, the last one today
generateSessionDate(sessionIndex, totalSessions) ==
  Today - (totalSessions - sessionIndex - 1) * 7

\* `Imported from session ${workout.session_id}`
ImportNote(session_id) ==
  IF session_id = "1" THEN "Imported from session 1" ELSE "Imported from session 2"

RECURSIVE PreparedSets(_, _, _, _)
\* exercise.sets.forEach: raw sets are passed over, the others pushed with
\* the next setOrder of the workout
PreparedSets(exercise, list, workoutIndex, setOrder) ==
  IF list = << >> THEN << >>
  ELSE LET set == Head(list)
           isBodyweight == set.weight = << >> \/ set.loadType = "bodyweight"
       IN
       IF set.raw THEN PreparedSets(exercise, Tail(list), workoutIndex, setOrder)
       ELSE << [workoutIndex |-> workoutIndex, exerciseName |-> exercise.name,
                exerciseCategory |-> exercise.category,
                weight |-> IF isBodyweight THEN 1 ELSE set.weight[1],
                reps |-> set.reps,
                loadType |-> IF isBodyweight THEN "bodyweight" ELSE "weighted",
                setOrder |-> setOrder] >>
            \o PreparedSets(exercise, Tail(list), workoutIndex, setOrder + 1)

RECURSIVE PreparedSession(_, _, _, _)
\* workout.exercises.forEach; acc = [exercises, exerciseSet, sets]
PreparedSession(list, workoutIndex, setOrder, acc) ==
  IF list = << >> THEN acc
  ELSE LET exercise == Head(list)
           exerciseKey == ExerciseKey(exercise.name, exercise.category)
           pushed == PreparedSets(exercise, exercise.sets, workoutIndex, setOrder)
       IN PreparedSession(Tail(list), workoutIndex, setOrder + Len(pushed),
            [exercises |-> IF exerciseKey \in acc.exerciseSet THEN acc.exercises
                           ELSE Append(acc.exercises,
                                       [name |-> exercise.name,
                                        category |-> exercise.category]),
             exerciseSet |-> acc.exerciseSet \cup { exerciseKey },
             sets |-> acc.sets \o pushed])

RECURSIVE PreparedFrom(_, _, _)
\* trainingsData.workouts.forEach, from session workoutIndex on
PreparedFrom(data, workoutIndex, acc) ==
  IF workoutIndex >= Len(data) THEN acc
  ELSE LET workout == data[workoutIndex + 1]
           inner == PreparedSession(workout.exercises, workoutIndex, 0,
                      [exercises |-> acc.exercises, exerciseSet |-> acc.exerciseSet,
                       sets |-> acc.sets])
       IN PreparedFrom(data, workoutIndex + 1,
            [workouts |-> Append(acc.workouts,
                            [date |-> generateSessionDate(workoutIndex, Len(data)),
                             notes |-> ImportNote(workout.session_id)]),
             exercises |-> inner.exercises,
             exerciseSet |-> inner.exerciseSet,
             sets |-> inner.sets])

\* the argument of bulkImport: { workouts, exercises, sets }
PreparedData ==
  LET acc == PreparedFrom(trainingsData, 0,
               [workouts |-> << >>, exercises |-> << >>, exerciseSet |-> {},
                sets |-> << >>])
  IN [workouts |-> acc.workouts, exercises |-> acc.exercises, sets |-> acc.sets]

\* the store as clearAllData leaves it: no row; DELETE resets neither
\* sqlite_sequence nor the last insert row id
Cleared(store) == [store EXCEPT !.workouts = {}, !.exercises = {}, !.sets = {}]

\* the statements of bulkImport's transaction body run on `store`
ImportRunOn(store, data) ==
  LET n == Len(data.workouts)
      workoutIdMap == [i \in 1..n |-> store.seq.workouts + i]
      last1 == IF n = 0 THEN store.last ELSE store.seq.workouts + n
      ex == ImportExercises(data.exercises,
              [exs |-> store.exercises, map |-> {}, next |-> store.seq.exercises,
               created |-> 0, last |-> last1])
      st == ImportSets(data.sets, workoutIdMap, ex.map,
              [rows |-> store.sets, next |-> store.seq.sets, created |-> 0,
               last |-> ex.last])
  IN  [workouts |-> store.workouts \cup
         { [id |-> store.seq.workouts + i, date |-> data.workouts[i].date,
            notes |-> data.workouts[i].notes] : i \in 1..n },
       exercises |-> ex.exs,
       sets |-> st.rows,
       seq |-> [workouts |-> store.seq.workouts + n, exercises |-> ex.next,
                sets |-> st.next],
       last |-> st.last,
       ret |-> << n, ex.created, st.created >>]

\* the tables, sqlite_sequence and the last insert row id at the call
Store ==
  [workouts |-> workouts, exercises |-> exercises, sets |-> sets, seq |-> seq,
   last |-> conns[db].lastRow]

\* importTrainingsToDatabase(clearExisting), every statement succeeding.
\* lastOp keeps clearExisting and the numbers of rows the call found.
importTrainingsToDatabase(clearExisting) ==
  /\ Ready
  /\ LET start == IF clearExisting THEN Cleared(Store) ELSE Store
         after == ImportRunOn(start, PreparedData)
     IN
       /\ workouts' = after.workouts
       /\ exercises' = after.exercises
       /\ sets' = after.sets
       /\ seq' = after.seq
       /\ SetLastRow(after.last)
       /\ DoneWith("importTrainingsToDatabase", 0,
                   << clearExisting, Cardinality(workouts), Cardinality(exercises),
                      Cardinality(sets) >>,
                   after.ret, NULL)
  /\ Touch

\* importTrainingsToDatabase(clearExisting) whose bulkImport has a
\* statement rejected after `done` items of `phase`: the transaction of
\* bulkImport rolls back to its BEGIN, which comes after clearAllData has
\* completed, and the rejection propagates to the caller.
importTrainingsToDatabaseFails(clearExisting, phase, done) ==
  /\ Ready
  /\ done < Len(PreparedData[phase])
  /\ LET start == IF clearExisting THEN Cleared(Store) ELSE Store
         after == ImportRunOn(start, Completed(PreparedData, phase, done))
         now == Rollback(start, after)
     IN
       /\ workouts' = now.workouts
       /\ exercises' = now.exercises
       /\ sets' = now.sets
       /\ seq' = now.seq
       /\ SetLastRow(after.last)
       /\ DoneWith("importTrainingsToDatabase", 0,
                   << clearExisting, Cardinality(workouts), Cardinality(exercises),
                      Cardinality(sets) >>,
                   << 0, 0, 0 >>, "SQLITE_ERROR")
  /\ Touch

\* the rows of the tables stay within the bound
TrainingsFit(clearExisting) ==
  /\ Ready
  /\ LET after == ImportRunOn(IF clearExisting THEN Cleared(Store) ELSE Store,
                              PreparedData).seq
     IN /\ after.workouts <= MaxImportRows
        /\ after.exercises <= MaxImportRows
        /\ after.sets <= MaxImportRows

NextTrainings ==
  \/ db = NoHandle /\ GetDatabase(1)
  \/ OpenResolve(1)
  \/ ExecResolve(1)
  \/ AlterResolve(1)
  \/ SelectResolve(1)
  \/ /\ seq.workouts < 1
     /\ createWorkout(2, NULL)
  \/ \E name \in DataNames :
       /\ seq.exercises < 1
       /\ createExercise(name, <<"P">>)
  \/ /\ seq.sets < 1
     /\ \E weight \in Weights : createSet(1, 1, weight, 5, "weighted", 0)
  \/ \E clearExisting \in BOOLEAN :
       /\ TrainingsFit(clearExisting)
       /\ importTrainingsToDatabase(clearExisting)
  \/ \E clearExisting \in BOOLEAN, phase \in { "workouts", "exercises", "sets" },
        done \in 0..1 :
       /\ TrainingsFit(clearExisting)
       /\ importTrainingsToDatabaseFails(clearExisting, phase, done)

SpecTrainings == Init /\ [][NextTrainings]_vars

(***************************************************************************)
(* The read operations of the history: the workouts of a date range and    *)
(* the sets joined with their exercise and workout.  workouts.date is a    *)
(* TEXT column that holds what Date.toISOString() gave, a text of fixed    *)
(* width; SQLite compares TEXT byte by byte.                               *)
(***************************************************************************)
\* toISOString: the digits of the date, zero padded to a fixed width
DateText(d) == << d \div 10, d % 10 >>

RECURSIVE TextLess(_, _)
\* a < b for TEXT under the BINARY collation: the first differing byte
\* decides, a proper prefix is smaller
TextLess(a, b) ==
  IF b = << >> THEN FALSE
  ELSE IF a = << >> THEN TRUE
  ELSE IF Head(a) # Head(b) THEN Head(a) < Head(b)
  ELSE TextLess(Tail(a), Tail(b))

\* the rows of S in every order: the order SQLite gives rows that ORDER BY
\* does not tell apart is not defined
Orderings(S) ==
  { q \in [1..Cardinality(S) -> S] : \A i, j \in 1..Cardinality(S) : i # j => q[i] # q[j] }

\* a range scan that leaves out the rows of the first day
WhereDateAfter(ws, from, to) ==
  { w \in ws : /\ TextLess(DateText(from), DateText(w.date))
               /\ ~TextLess(DateText(to), DateText(w.date)) }

\* WHERE date BETWEEN ? AND ?: from <= date AND date <= to
WhereDateBetween(ws, from, to) ==
  { w \in ws : /\ ~TextLess(DateText(w.date), DateText(from))
               /\ ~TextLess(DateText(to), DateText(w.date)) }

\* ORDER BY date DESC
OrderByDateDesc(S) ==
  { q \in Orderings(S) :
      \A i, j \in 1..Cardinality(S) :
        i < j => ~TextLess(DateText(q[i].date), DateText(q[j].date)) }

getWorkoutsByDateRange(from, to) ==
  /\ Ready
  /\ \E ret \in OrderByDateDesc(WhereDateBetween(workouts, from, to)) :
       DoneWith("getWorkoutsByDateRange", 0, << from, to >>, ret, NULL)
  /\ UNCHANGED << workouts, exercises, sets, seq, conns >>
  /\ Touch

\* SELECT s.*, e.name as exercise_name, e.category as exercise_category,
\* e.i18n_key as exercise_i18n_key, w.date as workout_date
SetWithDetails(s, e, w) ==
  [id |-> s.id, workout_id |-> s.workout_id, exercise_id |-> s.exercise_id,
   weight |-> s.weight, reps |-> s.reps, load_type |-> s.load_type,
   set_order |-> s.set_order, exercise_name |-> e.name,
   exercise_category |-> e.category, exercise_i18n_key |-> e.i18n_key,
   workout_date |-> w.date]

\* a join that matches the exercise on the workout id of the set
JoinOnWorkoutId(ss, es, ws) ==
  { SetWithDetails(t[1], t[2], t[3]) :
      t \in { u \in ss \X es \X ws :
                u[2].id = u[1].workout_id /\ u[3].id = u[1].workout_id } }

\* FROM sets s JOIN exercises e ON s.exercise_id = e.id
\*             JOIN workouts w ON s.workout_id = w.id
Join(ss, es, ws) ==
  { SetWithDetails(t[1], t[2], t[3]) :
      t \in { u \in ss \X es \X ws :
                u[2].id = u[1].exercise_id /\ u[3].id = u[1].workout_id } }

\* ORDER BY w.date DESC, s.set_order
OrderByDateDescSetOrder(S) ==
  { q \in Orderings(S) :
      \A i, j \in 1..Cardinality(S) :
        i < j =>
          /\ ~TextLess(DateText(q[i].workout_date), DateText(q[j].workout_date))
          /\ q[i].workout_date = q[j].workout_date => q[i].set_order <= q[j].set_order }

\* ${limit ? `LIMIT ${limit}` : ''}: an absent limit and the limit 0 add no
\* clause; a negative LIMIT is no limit to SQLite.  limit is << >> when the
\* argument is left out
Limit(q, limit) ==
  IF limit = << >> \/ limit[1] = 0 \/ limit[1] < 0 \/ limit[1] >= Len(q) THEN q
  ELSE SubSeq(q, 1, limit[1])

getAllSetsWithDetails(limit) ==
  /\ Ready
  /\ \E q \in OrderByDateDescSetOrder(Join(sets, exercises, workouts)) :
       DoneWith("getAllSetsWithDetails", 0, limit, Limit(q, limit), NULL)
  /\ UNCHANGED << workouts, exercises, sets, seq, conns >>
  /\ Touch

QueryDates == { 2, 10, 11 }
Limits == { << >>, << 0 >>, << 1 >> }

NextQuery ==
  \/ db = NoHandle /\ GetDatabase(1)
  \/ OpenResolve(1)
  \/ ExecResolve(1)
  \/ AlterResolve(1)
  \/ SelectResolve(1)
  \/ \E date \in QueryDates :
       /\ seq.workouts < MaxQueryRows
       /\ createWorkout(date, NULL)
  \/ \E name \in DataNames :
       /\ seq.exercises < MaxQueryRows
       /\ createExercise(name, <<"P">>)
  \/ /\ seq.sets < MaxQueryRows
     /\ \E w \in 1..MaxQueryRows, e \in 1..MaxQueryRows, setOrder \in 0..1 :
          createSet(w, e, 1, 5, "weighted", setOrder)
  \/ \E id \in 1..MaxQueryRows : updateSet(id, 2, 6, NULL)
  \/ \E from \in QueryDates, to \in QueryDates : getWorkoutsByDateRange(from, to)
  \/ \E limit \in Limits : getAllSetsWithDetails(limit)

SpecQuery == Init /\ [][NextQuery]_vars

(***************************************************************************)
(* Statements that fail for a reason of the store (I/O error, busy, full   *)
(* disk): the awaited promise rejects.  call[c].fault records the          *)
(* statement that failed.                                                  *)
(***************************************************************************)
Fail(c, fault, err) ==
  /\ call' = [call EXCEPT ![c] = [@ EXCEPT !.pc = "failed", !.err = err,
                                           !.fault = fault, !.rows = << >>]]
  /\ UNCHANGED << db, conns, closer, hasTables, hasCol, openCalls, schemaRuns,
                  resolved, nCalls, overlap, migrated >>
  /\ UNCHANGED dataVars

\* openDatabaseAsync rejects: db stays null
OpenFails(c) ==
  /\ call[c].pc = "open"
  /\ Fail(c, "open", "SQLITE_CANTOPEN")

\* the schema batch rejects: initializeSchema throws, db stays assigned
ExecFails(c) ==
  /\ call[c].pc = "exec"
  /\ ~Closed(call[c].h)
  /\ Fail(c, "exec", "SQLITE_IOERR")

\* the ALTER TABLE rejects with an error other than the duplicate column:
\* it reaches the same catch
AlterFails(c) ==
  /\ call[c].pc = "alter"
  /\ ~Closed(call[c].h)
  /\ IF ~Caught("SQLITE_IOERR") THEN Fail(c, "alter", "SQLITE_IOERR")
     ELSE /\ call' = [call EXCEPT ![c] =
                        IF db = NoHandle
                        THEN [@ EXCEPT !.pc = "failed", !.err = "TypeError",
                                       !.fault = "alter"]
                        ELSE [@ EXCEPT !.pc = "select", !.h = db, !.fault = "alter"]]
          /\ UNCHANGED << db, conns, closer, hasTables, hasCol, openCalls, schemaRuns,
                          resolved, nCalls, overlap, migrated >>
          /\ UNCHANGED dataVars

SelectFails(c) ==
  /\ call[c].pc = "select"
  /\ ~Closed(call[c].h)
  /\ Fail(c, "select", "SQLITE_IOERR")

UpdateFails(c) ==
  /\ call[c].pc = "update"
  /\ ~Closed(call[c].h)
  /\ Fail(c, "update", "SQLITE_IOERR")

(***************************************************************************)
(* One caller, with statements that may fail.                              *)
(***************************************************************************)
NextFault ==
  \/ GetDatabase(1)
  \/ OpenResolve(1)
  \/ ExecResolve(1)
  \/ AlterResolve(1)
  \/ SelectResolve(1)
  \/ UpdateResolve(1)
  \/ OpenFails(1)
  \/ ExecFails(1)
  \/ AlterFails(1)
  \/ SelectFails(1)
  \/ UpdateFails(1)
  \/ CloseDatabase
  \/ CloseResolve
  \/ \E name \in Names :
       /\ seq.exercises < MaxLifeRows \/ FindExercise(exercises, name, <<"P">>) # {}
       /\ createExercise(name, <<"P">>)

SpecFault == Init /\ [][NextFault]_vars

(***************************************************************************)
(* Properties.                                                             *)
(***************************************************************************)
\* id, name and category of every exercise row
Core(exs) == { [id |-> r.id, name |-> r.name, category |-> r.category] : r \in exs }

\* C1: getDatabase calls made one after another, with no closeDatabase in
\* between, open the file once, run the schema statements once, and all
\* resolve with the same handle, the memoized one.
C1_SequentialCallsOpenOnce ==
  ~overlap =>
    /\ openCalls <= 1
    /\ schemaRuns <= 1
    /\ Cardinality(resolved) <= 1
    /\ nCalls >= 1 => (openCalls = 1 /\ schemaRuns = 1 /\ resolved = { db })

\* C1 witness: the second call of a sequence of calls has resolved.
C1_Witness == ~overlap /\ nCalls >= 2 /\ openCalls = 1 /\ db # NoHandle

\* C2: overlapping getDatabase calls invoke openDatabaseAsync at most once
\* and all resolve with the same handle.
C2_OverlappingCallsOneHandle ==
  /\ openCalls <= 1
  /\ Cardinality(resolved) <= 1

\* C3: closeDatabase never fails, whether no handle was ever opened or it is
\* called twice in a row after an open; once it has returned, db is null; and
\* closeAsync is invoked at most once on every handle.
C3_CloseIdempotent ==
  /\ closer.pc # "failed"
  /\ \A h \in 1..Len(conns) : conns[h].closed <= 1
  /\ (closer.n > 0 /\ closer.pc = "idle") => db = NoHandle

\* C3 witness: closeDatabase has returned twice in a row after an open.
C3_Witness ==
  /\ closer.n >= 2
  /\ closer.pc = "idle"
  /\ \E h \in 1..Len(conns) : conns[h].closed = 1

\* C4: no step of getDatabase, on a fresh or on an initialized file, fails
\* (the ALTER TABLE on the present column included) or changes a workout, a
\* set, or the id, name and category of an exercise.
C4_ReinitKeepsData ==
  [][ call' # call =>
        /\ \A c \in Callers : call'[c].pc # "failed"
        /\ workouts' = workouts
        /\ sets' = sets
        /\ Core(exercises') = Core(exercises) ]_vars

\* C4 witness: getDatabase has resolved on a reopened file that holds rows
\* in all three tables.
C4_Witness ==
  /\ Len(conns) >= 2
  /\ db = Len(conns)
  /\ nCalls >= 1
  /\ hasCol
  /\ workouts # {} /\ exercises # {} /\ sets # {}

\* C5: a getDatabase call that resolves met no failing statement other than
\* the duplicate column of the ALTER TABLE.
C5_OnlyDuplicateColumnSuppressed ==
  \A c \in Callers : call[c].pc = "done" => call[c].fault = NULL

C7_BackfillIdempotent ==
  [][ /\ (migrated /\ migrated') => exercises' = exercises
      /\ \A c \in Callers :
           (call[c].pc = "select" /\ call'[c].pc = "update") =>
             \A i \in 1..Len(call'[c].rows) :
               \E r \in exercises : r.id = call'[c].rows[i].id /\ r.i18n_key = NULL
      /\ call' # call =>
           \A r \in exercises : r.i18n_key # NULL => r \in exercises' ]_vars

\* C7 witness: getDatabase has resolved on a reopened, already migrated
\* file that holds a keyed row whose name maps to another key.
C7_Witness ==
  /\ migrated
  /\ Len(conns) >= 2
  /\ db = Len(conns)
  /\ nCalls >= 1
  /\ \E r \in exercises :
       r.i18n_key = "defaultExercises.squats" /\ r.name = << "B" >>

\* C8: createExercise returns the id of the one exercise row that holds the
\* (name, category) it was called with.
C8_CreateExerciseReturnsRowId ==
  lastOp.op = "createExercise" =>
    /\ Cardinality(FindExercise(exercises, lastOp.name, lastOp.category)) = 1
    /\ lastOp.ret = ExerciseId(exercises, lastOp.name, lastOp.category)

\* C9: no two exercise rows have the same (name, category).
C9_UniqueNameCategory ==
  \A r \in exercises : \A q \in exercises :
    (r.name = q.name /\ r.category = q.category) => r.id = q.id

\* C9 witness: an updateExercise onto the pair of another row was refused.
C9_Witness ==
  /\ lastOp.op = "updateExercise"
  /\ lastOp.err = "SQLITE_CONSTRAINT_UNIQUE"
  /\ Cardinality(exercises) >= 2

\* C10: every set references an existing workout and an existing exercise.
C10_NoOrphanSets ==
  \A s \in sets : s.workout_id \in Ids(workouts) /\ s.exercise_id \in Ids(exercises)

\* C10 witness: deleting an exercise has removed the set that referenced it.
C10_Witness ==
  /\ lastOp.op = "deleteExercise"
  /\ seq.sets >= 1
  /\ sets = {}
  /\ workouts # {}
  /\ lastOp.id \notin Ids(exercises)
  /\ lastOp.id <= seq.exercises

\* the step is the data operation op
OpStep(op) == call' = call /\ closer' = closer /\ lastOp'.op = op

\* the step changes no row
NoRowChanged == workouts' = workouts /\ exercises' = exercises /\ sets' = sets

\* C11: deleteWorkout(id) removes the workout id and the sets of workout id,
\* and nothing else; deleteExercise(id) removes the exercise id and the sets
\* of exercise id, and nothing else: no workout row in particular.
C11_DeleteRemovesOnlyItsRows ==
  [][ /\ OpStep("deleteWorkout") =>
           /\ workouts' = { w \in workouts : w.id # lastOp'.id }
           /\ sets' = { s \in sets : s.workout_id # lastOp'.id }
           /\ exercises' = exercises
      /\ OpStep("deleteExercise") =>
           /\ exercises' = { r \in exercises : r.id # lastOp'.id }
           /\ sets' = { s \in sets : s.exercise_id # lastOp'.id }
           /\ workouts' = workouts ]_vars

\* C11 witness: deleteExercise has removed an exercise and left a workout
\* without sets, while the set of another exercise is still there.
C11_Witness ==
  /\ lastOp.op = "deleteExercise"
  /\ lastOp.id \notin Ids(exercises)
  /\ lastOp.id <= seq.exercises
  /\ seq.sets = 2
  /\ Cardinality(sets) = 1
  /\ Cardinality(workouts) = 2
  /\ \E w \in workouts : \A s \in sets : s.workout_id # w.id

\* C12: createSet with a workoutId or an exerciseId that is not the id of a
\* row fails with the foreign key violation and changes no row.
C12_CreateSetBadKeyFails ==
  [][ ( /\ OpStep("createSet")
        /\ \/ lastOp'.args[1] \notin Ids(workouts)
           \/ lastOp'.args[2] \notin Ids(exercises) ) =>
        /\ lastOp'.err = "SQLITE_CONSTRAINT_FOREIGNKEY"
        /\ NoRowChanged ]_vars

\* C12 witness: a createSet on an existing workout and a missing exercise
\* was refused while the tables hold rows.
C12_Witness ==
  /\ lastOp.op = "createSet"
  /\ lastOp.err = "SQLITE_CONSTRAINT_FOREIGNKEY"
  /\ lastOp.args[1] \in Ids(workouts)
  /\ lastOp.args[2] \notin Ids(exercises)
  /\ sets # {}

\* C14: updateSet(id, weight, reps) changes the weight and reps of set id
\* and nothing else; with a loadType it sets load_type as well, and still
\* nothing else.
C14_UpdateSetFrame ==
  [][ OpStep("updateSet") =>
        /\ workouts' = workouts
        /\ exercises' = exercises
        /\ Ids(sets') = Ids(sets)
        /\ Cardinality(sets') = Cardinality(sets)
        /\ \A s \in sets : \A t \in sets' : s.id = t.id =>
             IF s.id # lastOp'.id THEN t = s
             ELSE /\ t.weight = lastOp'.args[1]
                  /\ t.reps = lastOp'.args[2]
                  /\ t.workout_id = s.workout_id
                  /\ t.exercise_id = s.exercise_id
                  /\ t.set_order = s.set_order
                  /\ t.load_type = IF lastOp'.args[3] = NULL THEN s.load_type
                                   ELSE lastOp'.args[3] ]_vars

\* C14 witness: an updateSet without loadType has rewritten a bodyweight
\* set, next to another set.
C14_Witness ==
  /\ lastOp.op = "updateSet"
  /\ lastOp.args[3] = NULL
  /\ Cardinality(sets) = 2
  /\ \E s \in sets : /\ s.id = lastOp.id
                      /\ s.load_type = "bodyweight"
                      /\ s.weight = lastOp.args[1]

\* C15: an update or a delete whose id matches no row raises no error and
\* changes no row.
C15_AbsentIdIsNoOp ==
  [][ /\ \A op \in { "updateWorkout", "deleteWorkout" } :
           (OpStep(op) /\ lastOp'.id \notin Ids(workouts)) =>
             (lastOp'.err = NULL /\ NoRowChanged)
      /\ \A op \in { "updateExercise", "deleteExercise" } :
           (OpStep(op) /\ lastOp'.id \notin Ids(exercises)) =>
             (lastOp'.err = NULL /\ NoRowChanged)
      /\ \A op \in { "updateSet", "deleteSet" } :
           (OpStep(op) /\ lastOp'.id \notin Ids(sets)) =>
             (lastOp'.err = NULL /\ NoRowChanged) ]_vars

\* C15 witness: an updateExercise with the id of no row, onto the pair of
\* an existing row, has returned without error.
C15_Witness ==
  /\ lastOp.op = "updateExercise"
  /\ lastOp.id \notin Ids(exercises)
  /\ lastOp.err = NULL
  /\ FindExercise(exercises, lastOp.name, lastOp.category) # {}

\* C13: every persisted set has a weight above 0 and reps above 0; an
\* entered weight of 0 is stored as 1.
C13_WeightAndRepsPositive ==
  \A s \in sets : s.weight > 0 /\ s.reps > 0

RECURSIVE VolumeUpTo(_, _)
\* weight * reps of the sets with ids 1..n, added id by id
VolumeUpTo(rows, n) ==
  IF n = 0 THEN 0
  ELSE VolumeUpTo(rows, n - 1) +
       (IF \E s \in rows : s.id = n
        THEN LET s == CHOOSE r \in rows : r.id = n IN s.weight * s.reps
        ELSE 0)

\* C16: getWorkoutStats fails in no state, changes no row, and returns the
\* number of workouts, the number of sets, the sum of weight * reps over
\* the sets and the number of distinct exercises; all four are 0 on an
\* empty store.
C16_StatsMatchTables ==
  [][ OpStep("getWorkoutStats") =>
        /\ NoRowChanged
        /\ lastOp'.err = NULL
        /\ lastOp'.ret.totalWorkouts = Cardinality(workouts)
        /\ lastOp'.ret.totalSets = Cardinality(sets)
        /\ lastOp'.ret.totalVolume = VolumeUpTo(sets, seq.sets)
        /\ lastOp'.ret.uniqueExercises =
             Cardinality({ << r.name, r.category >> : r \in exercises })
        /\ (workouts = {} /\ exercises = {} /\ sets = {}) =>
             lastOp'.ret = [totalWorkouts |-> 0, totalSets |-> 0, totalVolume |-> 0,
                            uniqueExercises |-> 0] ]_vars

\* C16 witness: the statistics of two sets of different weights.
C16_Witness ==
  /\ lastOp.op = "getWorkoutStats"
  /\ lastOp.ret.totalSets = 2
  /\ lastOp.ret.totalVolume = 15
  /\ lastOp.ret.uniqueExercises = 2

\* C17: a bulkImport in which a statement fails rejects and leaves the three
\* tables with the rows they had before the call.
C17_ImportAllOrNothing ==
  [][ (OpStep("bulkImport") /\ lastOp'.err # NULL) =>
        (NoRowChanged /\ lastOp'.ret = << 0, 0, 0 >>) ]_vars

\* C17 witness: a bulkImport was rejected after one of its statements had
\* inserted a row with an id beyond every row the tables ever held.
C17_Witness ==
  /\ lastOp.op = "bulkImport"
  /\ lastOp.err # NULL
  /\ conns[db].lastRow > seq.workouts
  /\ conns[db].lastRow > seq.exercises
  /\ conns[db].lastRow > seq.sets

\* the sets of a batch that bulkImport can resolve: the workout index is an
\* index of the batch's workouts and the exercise is listed in the batch
ValidSets(data) ==
  { i \in 1..Len(data.sets) :
      /\ data.sets[i].workoutIndex \in 0..(Len(data.workouts) - 1)
      /\ \E j \in 1..Len(data.exercises) :
           /\ data.exercises[j].name = data.sets[i].exerciseName
           /\ data.exercises[j].category = data.sets[i].exerciseCategory }

\* C18: a bulkImport that completes on a batch with a set whose workoutIndex
\* is out of range has skipped that set, not counted it, and has committed
\* every workout, every exercise and every other resolvable set of the batch.
C18_OutOfRangeSetSkipped ==
  [][ ( /\ OpStep("bulkImport")
        /\ lastOp'.err = NULL
        /\ \E i \in 1..Len(lastOp'.args.sets) :
             lastOp'.args.sets[i].workoutIndex \notin
               0..(Len(lastOp'.args.workouts) - 1) ) =>
        LET data == lastOp'.args IN
          /\ lastOp'.ret[3] = Cardinality(ValidSets(data))
          /\ Cardinality(sets') = Cardinality(sets) + Cardinality(ValidSets(data))
          /\ \A i \in ValidSets(data) : \E r \in sets' \ sets :
               /\ r.weight = data.sets[i].weight
               /\ r.workout_id = seq.workouts + data.sets[i].workoutIndex + 1
               /\ r.exercise_id = ExerciseId(exercises', data.sets[i].exerciseName,
                                              data.sets[i].exerciseCategory)
          /\ Cardinality(workouts') = Cardinality(workouts) + Len(data.workouts)
          /\ \A j \in 1..Len(data.exercises) :
               FindExercise(exercises', data.exercises[j].name,
                            data.exercises[j].category) # {} ]_vars

\* C18 witness: a bulkImport of a batch whose first set has a workout index
\* out of range has completed with its workout and its other set.
C18_Witness ==
  /\ lastOp.op = "bulkImport"
  /\ lastOp.err = NULL
  /\ Len(lastOp.args.sets) = 2
  /\ lastOp.args.sets[1].workoutIndex \notin 0..(Len(lastOp.args.workouts) - 1)
  /\ lastOp.ret[1] = 1
  /\ lastOp.ret[3] = 1
  /\ sets # {}

\* C19: a bulkImport that completes returns the growth of each table; the
\* rows of before are all still there, and no (name, category) is held twice.
C19_ImportCountsAreGrowth ==
  [][ (OpStep("bulkImport") /\ lastOp'.err = NULL) =>
        /\ lastOp'.ret[1] = Cardinality(workouts') - Cardinality(workouts)
        /\ lastOp'.ret[2] = Cardinality(exercises') - Cardinality(exercises)
        /\ lastOp'.ret[3] = Cardinality(sets') - Cardinality(sets)
        /\ workouts \subseteq workouts'
        /\ exercises \subseteq exercises'
        /\ sets \subseteq sets'
        /\ Cardinality({ << r.name, r.category >> : r \in exercises' }) =
             Cardinality(exercises') ]_vars

\* C19 witness: a bulkImport that lists two exercises, one of them already
\* in the table, has returned one exercise created.
C19_Witness ==
  /\ lastOp.op = "bulkImport"
  /\ lastOp.err = NULL
  /\ Len(lastOp.args.exercises) = 2
  /\ lastOp.args.exercises[1] # lastOp.args.exercises[2]
  /\ lastOp.ret[2] = 1
  /\ Cardinality(exercises) = 2

\* C20: seedDefaultExercises inserts the entries whose (name, category) no
\* row holds, each once, and returns their number; every row of before is
\* kept; the same list seeded again at once returns 0 and changes nothing;
\* no (name, category) is ever held twice.
C20_SeedIsIdempotent ==
  [][ OpStep("seedDefaultExercises") =>
        LET list == lastOp'.args IN
          /\ lastOp'.err = NULL
          /\ lastOp'.ret = Cardinality(exercises') - Cardinality(exercises)
          /\ exercises \subseteq exercises'
          /\ \A r \in exercises' \ exercises :
               /\ FindExercise(exercises, r.name, r.category) = {}
               /\ \E i \in 1..Len(list) :
                    /\ list[i].name = r.name
                    /\ list[i].category = r.category
                    /\ list[i].i18n_key = r.i18n_key
          /\ \A i \in 1..Len(list) :
               Cardinality(FindExercise(exercises', list[i].name, list[i].category)) = 1
          /\ Cardinality({ << r.name, r.category >> : r \in exercises' }) =
               Cardinality(exercises')
          /\ (lastOp.op = "seedDefaultExercises" /\ lastOp.args = list) =>
               (lastOp'.ret = 0 /\ exercises' = exercises) ]_vars

\* C20 witness: a list that names one pair twice has been seeded a second
\* time, on the two rows the first time left, and has inserted nothing.
C20_Witness ==
  /\ lastOp.op = "seedDefaultExercises"
  /\ Len(lastOp.args) = 3
  /\ lastOp.ret = 0
  /\ Cardinality(exercises) = 2
  /\ \A i \in 1..3 :
       \E r \in exercises : /\ r.name = lastOp.args[i].name
                             /\ r.category = lastOp.args[i].category
                             /\ r.i18n_key = lastOp.args[i].i18n_key

\* C21: an exercise row is born with its flag, the i18n_key seedDefaultExercises
\* was given or the null of createExercise, and no later step, a restart
\* included, sets or changes the i18n_key of a row.
C21_FlagStable ==
  [][ /\ \A r \in exercises : \A q \in exercises' :
           r.id = q.id => q.i18n_key = r.i18n_key
      /\ OpStep("createExercise") =>
           \A q \in exercises' \ exercises : q.i18n_key = NULL ]_vars

\* C22: clearAllData does not fail and leaves the three tables empty,
\* whatever rows and references the store held.
C22_ClearEmptiesAll ==
  [][ OpStep("clearAllData") =>
        /\ lastOp'.err = NULL
        /\ workouts' = {}
        /\ exercises' = {}
        /\ sets' = {} ]_vars

\* C22 witness: clearAllData has returned on a store that held a set with
\* its workout and its exercise.
C22_Witness ==
  /\ lastOp.op = "clearAllData"
  /\ lastOp.err = NULL
  /\ lastOp.args[1] >= 1 /\ lastOp.args[2] >= 1 /\ lastOp.args[3] >= 1
  /\ workouts = {} /\ exercises = {} /\ sets = {}

\* C26: updateExercise(id, name, category) writes name and category of
\* row id and nothing else: not its i18n_key, not a set, not another row;
\* onto the pair of another row it fails with the uniqueness violation and
\* changes no row.
C26_UpdateExerciseFrame ==
  [][ OpStep("updateExercise") =>
        /\ workouts' = workouts
        /\ sets' = sets
        /\ Ids(exercises') = Ids(exercises)
        /\ Cardinality(exercises') = Cardinality(exercises)
        /\ IF \E q \in exercises : /\ q.id # lastOp'.id
                                    /\ q.name = lastOp'.name
                                    /\ q.category = lastOp'.category
                                    /\ lastOp'.id \in Ids(exercises)
           THEN lastOp'.err = "SQLITE_CONSTRAINT_UNIQUE" /\ exercises' = exercises
           ELSE /\ lastOp'.err = NULL
                /\ \A r \in exercises : \A q \in exercises' : r.id = q.id =>
                     IF r.id # lastOp'.id THEN q = r
                     ELSE /\ q.name = lastOp'.name
                          /\ q.category = lastOp'.category
                          /\ q.i18n_key = r.i18n_key ]_vars

\* C26 witness: a seeded exercise that a set references has been renamed
\* and still carries its key.
C26_Witness ==
  /\ lastOp.op = "updateExercise"
  /\ lastOp.err = NULL
  /\ \E r \in exercises :
       /\ r.id = lastOp.id
       /\ r.name = lastOp.name
       /\ r.category = <<"L">>
       /\ r.i18n_key = "defaultExercises.benchPress"
       /\ \E t \in sets : t.exercise_id = r.id

\* C27: when a getDatabase call resolves with a handle, the schema batch
\* has completed on that handle and no initialization step (schema batch,
\* ALTER, SELECT, UPDATE of the migration) is still pending on it or has
\* failed on it.
C27_ResolvedMeansInitialized ==
  [][ \A c \in Callers :
        ( /\ call'[c].pc = "done"
          /\ call'[c] # call[c]
          /\ call'[c].ret # NoHandle ) =>
        /\ conns'[call'[c].ret].fk
        /\ hasTables'
        /\ \A d \in Callers :
             call'[d].h = call'[c].ret =>
               call'[d].pc \notin { "exec", "alter", "select", "update", "failed" } ]_vars

\* C28: a bulkImport that completes has inserted set i of the batch exactly
\* when its workoutIndex is an index of data.workouts and its (exerciseName,
\* exerciseCategory) is a pair of data.exercises; a set of an exercise the
\* store holds and the batch does not list is skipped without error.
C28_SetInsertedIffListed ==
  [][ (OpStep("bulkImport") /\ lastOp'.err = NULL) =>
        LET data == lastOp'.args IN
          /\ lastOp'.ret[3] = Cardinality(ValidSets(data))
          /\ \A i \in 1..Len(data.sets) :
               (i \in ValidSets(data)) <=>
                 (\E r \in sets' \ sets : r.weight = data.sets[i].weight) ]_vars

\* C29: every set row a bulkImport inserts refers to the exercise row with
\* exactly the name and category of its input set, and every pair listed in
\* data.exercises has a row afterwards, also when a name or a category
\* holds the character '|'.
C29_KeyIsExactPair ==
  [][ (OpStep("bulkImport") /\ lastOp'.err = NULL) =>
        LET data == lastOp'.args IN
          /\ \A r \in sets' \ sets : \E i \in 1..Len(data.sets) :
               /\ r.weight = data.sets[i].weight
               /\ r.exercise_id = ExerciseId(exercises', data.sets[i].exerciseName,
                                              data.sets[i].exerciseCategory)
          /\ \A j \in 1..Len(data.exercises) :
               FindExercise(exercises', data.exercises[j].name,
                            data.exercises[j].category) # {} ]_vars

\* C30: an importTrainingsToDatabase(true) whose bulkImport step rejects
\* leaves the workouts, exercises and sets the store held before the call.
C30_FailedImportNotApplied ==
  [][ ( /\ OpStep("importTrainingsToDatabase")
        /\ lastOp'.err # NULL
        /\ lastOp'.args[1] ) => NoRowChanged ]_vars

\* C23: getWorkoutsByDateRange(from, to) returns each workout with
\* from <= date <= to once and no other row, latest date first, the empty
\* sequence when there is none; it does not fail and changes no row.
C23_DateRangeInclusive ==
  [][ OpStep("getWorkoutsByDateRange") =>
        LET ret == lastOp'.ret
            from == lastOp'.args[1]
            to == lastOp'.args[2]
        IN
          /\ lastOp'.err = NULL
          /\ NoRowChanged
          /\ { ret[i] : i \in 1..Len(ret) } =
               { w \in workouts : from <= w.date /\ w.date <= to }
          /\ Len(ret) = Cardinality({ w \in workouts : from <= w.date /\ w.date <= to })
          /\ \A i, j \in 1..Len(ret) : i < j => ret[i].date >= ret[j].date ]_vars

\* C23 witness: the range from day 2 to day 10 has returned the workout of
\* day 10 and then the workout of day 2.
C23_Witness ==
  /\ lastOp.op = "getWorkoutsByDateRange"
  /\ lastOp.args = << 2, 10 >>
  /\ Len(lastOp.ret) = 2
  /\ lastOp.ret[1].date = 10
  /\ lastOp.ret[2].date = 2

\* C24: getAllSetsWithDetails without a limit holds, for every set, a
\* record with the name and category of its exercise, the date of its
\* workout and its weight and reps; right after createSet(workoutId,
\* exerciseId) the record of the new set names that exercise and the date of
\* that workout, and right after updateSet(id, w2, r2) the record of set id
\* reports w2 and r2.
C24_JoinedRoundTrip ==
  [][ (OpStep("getAllSetsWithDetails") /\ lastOp'.args = << >>) =>
        LET ret == lastOp'.ret
            Rec(id) == { ret[i] : i \in { k \in 1..Len(ret) : ret[k].id = id } }
        IN
          /\ \A s \in sets : \A e \in exercises : \A w \in workouts :
               (e.id = s.exercise_id /\ w.id = s.workout_id) =>
                 /\ Cardinality(Rec(s.id)) = 1
                 /\ \A r \in Rec(s.id) :
                      /\ r.weight = s.weight
                      /\ r.reps = s.reps
                      /\ r.exercise_name = e.name
                      /\ r.exercise_category = e.category
                      /\ r.workout_date = w.date
          /\ (lastOp.op = "createSet" /\ lastOp.err = NULL) =>
               /\ Rec(lastOp.id) # {}
               /\ \A r \in Rec(lastOp.id) :
                    /\ \E w \in workouts :
                         w.id = lastOp.args[1] /\ r.workout_date = w.date
                    /\ \E e \in exercises :
                         /\ e.id = lastOp.args[2]
                         /\ r.exercise_name = e.name
                         /\ r.exercise_category = e.category
          /\ (lastOp.op = "updateSet" /\ lastOp.id \in Ids(sets)) =>
               /\ Rec(lastOp.id) # {}
               /\ \A r \in Rec(lastOp.id) :
                    r.weight = lastOp.args[1] /\ r.reps = lastOp.args[2] ]_vars

\* C24 witness: the query has returned the record of a set of exercise 'x'
\* in the workout of day 10 with the weight and reps updateSet wrote.
C24_Witness ==
  /\ lastOp.op = "getAllSetsWithDetails"
  /\ lastOp.args = << >>
  /\ \E i \in 1..Len(lastOp.ret) :
       /\ lastOp.ret[i].weight = 2
       /\ lastOp.ret[i].reps = 6
       /\ lastOp.ret[i].exercise_name = <<"x">>
       /\ lastOp.ret[i].exercise_category = <<"P">>
       /\ lastOp.ret[i].workout_date = 10

\* C25: getAllSetsWithDetails returns records of distinct sets, latest
\* workout date first and then by set_order; without a limit there is one
\* for every set; with a limit >= 0 there are min(limit, number of sets) of
\* them, and no set left out comes before a record returned.
C25_OrderedAndCapped ==
  [][ OpStep("getAllSetsWithDetails") =>
        LET ret == lastOp'.ret
            limit == lastOp'.args
            got == { ret[i].id : i \in 1..Len(ret) }
        IN
          /\ Cardinality(got) = Len(ret)
          /\ got \subseteq Ids(sets)
          /\ \A i, j \in 1..Len(ret) : i < j =>
               \/ ret[i].workout_date > ret[j].workout_date
               \/ /\ ret[i].workout_date = ret[j].workout_date
                  /\ ret[i].set_order <= ret[j].set_order
          /\ limit = << >> => got = Ids(sets)
          /\ limit # << >> =>
               /\ Len(ret) <= limit[1]
               /\ Len(ret) = Cardinality(sets) \/ Len(ret) = limit[1]
               /\ \A s \in sets : \A w \in workouts : \A i \in 1..Len(ret) :
                    (s.id \notin got /\ w.id = s.workout_id) =>
                      \/ ret[i].workout_date > w.date
                      \/ /\ ret[i].workout_date = w.date
                         /\ ret[i].set_order <= s.set_order ]_vars

====
